---- MODULE Spec2Model ----
(***************************************************************************)
(* The XDM configuration model of python-backend/lib/xdm_processor.py:     *)
(* ConfigContainer (instances, per-variable value lists, current           *)
(* instance) and the XDMProcessor operations on it (instance lifecycle,    *)
(* variable values, change history).                                       *)
(***************************************************************************)
EXTENDS Integers, Sequences, FiniteSets, TLC

\* ------------------------------------------------------------------ bounds
\* A "*" container is unbounded in the code; the model stops creating at
\* MaxInstances instances.
MaxInstances == 3
\* configuration_history is unbounded in the code; the model follows the
\* processor while it holds fewer than MaxHistory records.
MaxHistory == 1
\* Instance ids passed by callers range over -MaxNeg .. count (and None).
MaxNeg == 1

\* Elements added to a document.
MaxElements == 4

\* ------------------------------------------------------- the configuration
\* Python's None, for an omitted instance_id / target_instance_id.
None == -100

\* The containers of the canonical shape table that the model keeps, with
\* the variables the table lists for them (a subset of each list).
Containers == {"LinChannel", "LinGeneral"}

ContainerVariables ==
    [LinChannel |-> {"LinChannelId", "LinChannelBaudRate"},
     LinGeneral |-> {"LinIndex"}]

\* var_info['definition'].get('default', '') of each variable definition.
Default ==
    [LinChannelId |-> "0", LinChannelBaudRate |-> "1", LinIndex |-> "0"]

\* The values a caller stores.
Values == {"0", "1"}

\* Variable names a caller passes: the container's own and one it lacks.
VarNames(c) == ContainerVariables[c] \cup {"LinTimeoutDuration"}

\* definition.get('multiplicity', '1'): "*" or a numeric string.
Multiplicities ==
    [LinChannel : {"*", "2"}, LinGeneral : {"1"}]

\* int(self.multiplicity) of a numeric multiplicity string.
IntOf(s) ==
    CASE s = "1" -> 1
      [] s = "2" -> 2
      [] s = "3" -> 3

VARIABLES
    multiplicity,           \* container -> ConfigContainer.multiplicity
    instances,              \* container -> ConfigContainer.instances
    variables,              \* container -> variable -> its 'values' list
    current_instance,       \* container -> ConfigContainer.current_instance
    configuration_history,  \* XDMProcessor.configuration_history
    modification_count,     \* XDMProcessor.modification_count
    last,                   \* the last call: operation, arguments, result
    document,               \* the file a parser is given
    parse_result,           \* the last parse: operation, what it returned
    containers,             \* XDMProcessor.containers: the keys of the flat map
    all_containers,         \* XDMProcessor.all_containers: key -> ConfigContainer
    root_containers,        \* XDMProcessor.root_containers: its keys
    tree_structure,         \* the tree the backend normalizes
    process                 \* the finished CLI process: stdout, returncode

\* The container registry of the processor.
registry_vars == <<containers, all_containers, root_containers>>

\* What the backend and the command line work on.
backend_vars == <<tree_structure, process>>

vars == <<multiplicity, instances, variables, current_instance,
          configuration_history, modification_count, last,
          document, parse_result, registry_vars, backend_vars>>

\* ------------------------------------------------------- Python sequences
\* The 1-based position that Python's s[i] reads (negative i counts from
\* the end); s[i] raises IndexError unless InRange(s, i).
PyIndex(s, i) == IF i >= 0 THEN i + 1 ELSE Len(s) + i + 1

InRange(s, i) == PyIndex(s, i) >= 1 /\ PyIndex(s, i) <= Len(s)

\* Pop as a bug would have it: the last element goes, whatever i is.
Pop_DropsLast(s, i) == SubSeq(s, 1, Len(s) - 1)

\* list.pop(i) for 0 <= i < len(s).
Pop(s, i) == [k \in 1..(Len(s) - 1) |-> IF k <= i THEN s[k] ELSE s[k + 1]]

\* -------------------------------------------------------- ConfigContainer
\* One container's mutable fields, as the methods below read and write them.
Container(c) ==
    [instances |-> instances[c],
     variables |-> variables[c],
     current_instance |-> current_instance[c]]

\* PadValues as a bug would have it: no slot is added.
PadValues_NoFill(vals, v, instance_id) == vals

\* The 'values' list padded with the default while len(values) <= instance_id.
PadValues(vals, v, instance_id) ==
    IF Len(vals) <= instance_id
    THEN vals \o [k \in 1..(instance_id + 1 - Len(vals)) |-> Default[v]]
    ELSE vals

\* LimitReached as a bug would have it: > for >=.
LimitReached_OffByOne(c, self) ==
    multiplicity[c] # "*" /\ Len(self.instances) > IntOf(multiplicity[c])

\* The multiplicity test of create_instance.
LimitReached(c, self) ==
    multiplicity[c] # "*" /\ Len(self.instances) >= IntOf(multiplicity[c])

\* DefaultSnapshot as a bug would have it: the empty string for the default.
DefaultSnapshot_Empty(c) == [v \in ContainerVariables[c] |-> ""]

\* The snapshot of a new instance: every variable at its definition's default.
DefaultSnapshot(c) == [v \in ContainerVariables[c] |-> Default[v]]

\* ConfigContainer.create_instance: result "int" with the new id in ret, or
\* "ValueError" with the container untouched.
create_instance(c, self) ==
    IF LimitReached(c, self)
    THEN [self |-> self, result |-> "ValueError", ret |-> None]
    ELSE LET instance_id == Len(self.instances)
             instance_data ==
                 [id |-> instance_id,
                  name |-> instance_id,
                  variables |-> DefaultSnapshot(c)]
         IN  [self |->
                 [self EXCEPT
                    !.instances = Append(@, instance_data),
                    !.variables =
                        [v \in ContainerVariables[c] |->
                            PadValues(@[v], v, instance_id)]],
              result |-> "int",
              ret |-> instance_id]

\* Renumber as a bug would have it: the ids stay.
Renumber_KeepsIds(insts) == insts

\* The instances after the pop, renumbered by position.
Renumber(insts) ==
    [k \in 1..Len(insts) |-> [insts[k] EXCEPT !.id = k - 1, !.name = k - 1]]

\* DeleteInRange as a bug would have it: <= for <.
DeleteInRange_Inclusive(self, instance_id) ==
    0 <= instance_id /\ instance_id <= Len(self.instances)

\* The range test of delete_instance.
DeleteInRange(self, instance_id) ==
    0 <= instance_id /\ instance_id < Len(self.instances)

\* delete_instance as a bug would have it: current_instance is left alone.
delete_instance_KeepsCurrent(c, self, instance_id) ==
    IF DeleteInRange(self, instance_id)
    THEN [self |->
             [instances |-> Renumber(Pop(self.instances, instance_id)),
              variables |->
                  [v \in ContainerVariables[c] |->
                      IF instance_id < Len(self.variables[v])
                      THEN Pop(self.variables[v], instance_id)
                      ELSE self.variables[v]],
              current_instance |-> self.current_instance],
          result |-> "True", ret |-> None]
    ELSE [self |-> self, result |-> "False", ret |-> None]

\* ConfigContainer.delete_instance
delete_instance(c, self, instance_id) ==
    IF DeleteInRange(self, instance_id)
    THEN LET popped == Renumber(Pop(self.instances, instance_id))
         IN  [self |->
                 [instances |-> popped,
                  variables |->
                      [v \in ContainerVariables[c] |->
                          IF instance_id < Len(self.variables[v])
                          THEN Pop(self.variables[v], instance_id)
                          ELSE self.variables[v]],
                  current_instance |->
                      IF self.current_instance >= Len(popped)
                      THEN (IF Len(popped) - 1 > 0 THEN Len(popped) - 1 ELSE 0)
                      ELSE self.current_instance],
              result |-> "True", ret |-> None]
    ELSE [self |-> self, result |-> "False", ret |-> None]

\* SetTarget as a bug would have it: the current instance, whatever is given.
SetTarget_AlwaysCurrent(self, instance_id_arg) == self.current_instance

\* if instance_id is None: instance_id = self.current_instance
SetTarget(self, instance_id_arg) ==
    IF instance_id_arg = None THEN self.current_instance ELSE instance_id_arg

\* ConfigContainer.set_variable_value. The snapshot is written first, then
\* the 'values' list; either subscript raises IndexError when out of range.
set_variable_value(c, self, var_name, value, instance_id_arg) ==
    IF var_name \notin ContainerVariables[c]
    THEN [self |-> self, result |-> "False", ret |-> None]
    ELSE LET instance_id == SetTarget(self, instance_id_arg)
         IN  IF instance_id >= Len(self.instances)
             THEN [self |-> self, result |-> "False", ret |-> None]
             ELSE IF ~InRange(self.instances, instance_id)
             THEN [self |-> self, result |-> "IndexError", ret |-> None]
             ELSE LET written ==
                          [self EXCEPT
                             !.instances[PyIndex(self.instances, instance_id)]
                                 .variables[var_name] = value]
                      padded ==
                          PadValues(self.variables[var_name], var_name,
                                    instance_id)
                  IN  IF ~InRange(padded, instance_id)
                      THEN [self |-> written, result |-> "IndexError",
                            ret |-> None]
                      ELSE [self |->
                               [written EXCEPT
                                  !.variables[var_name] =
                                      [padded EXCEPT
                                         ![PyIndex(padded, instance_id)] =
                                             value]],
                            result |-> "True", ret |-> None]

\* ConfigContainer.get_variable_value: result "value" with the value in val,
\* "None" for an unknown variable, or "IndexError".
get_variable_value(c, self, var_name, instance_id_arg) ==
    IF var_name \notin ContainerVariables[c]
    THEN [result |-> "None", val |-> ""]
    ELSE LET instance_id ==
                 IF instance_id_arg = None THEN self.current_instance
                 ELSE instance_id_arg
         IN  IF instance_id >= Len(self.instances)
             THEN [result |-> "value", val |-> Default[var_name]]
             ELSE IF ~InRange(self.instances, instance_id)
             THEN [result |-> "IndexError", val |-> ""]
             ELSE [result |-> "value",
                   val |-> self.instances[PyIndex(self.instances, instance_id)]
                               .variables[var_name]]

\* ----------------------------------------------------------- XDMProcessor
\* The record of a call: last' == Call(op, container, var, value, id, target,
\* result, ret); absent arguments are "" or None.
Call(op, c, var_name, value, instance_id, target, result, ret) ==
    [op |-> op, container_path |-> c, var_name |-> var_name, value |-> value,
     instance_id |-> instance_id, target |-> target,
     result |-> result, ret |-> ret]

\* Writes one container's fields back.
Store(c, self) ==
    /\ instances' = [instances EXCEPT ![c] = self.instances]
    /\ variables' = [variables EXCEPT ![c] = self.variables]
    /\ current_instance' = [current_instance EXCEPT ![c] = self.current_instance]

\* XDMProcessor._record_change (the timestamp is not modelled).
record_change(action, container_path, details) ==
    /\ configuration_history' =
           Append(configuration_history,
                  [action |-> action, container_path |-> container_path,
                   details |-> details])
    /\ modification_count' = modification_count + 1

\* Instance ids a caller passes to a container with n instances.
Ids(c) == (-MaxNeg)..Len(instances[c])

\* A call that creates an instance is taken while the model has room for it.
RoomFor(c) == Len(instances[c]) < MaxInstances

\* A call that appends a ChangeRecord is taken while the history has room.
HistoryRoom == Len(configuration_history) < MaxHistory

\* ConfigContainer.create_instance called on the container directly.
Container_create_instance(c) ==
    /\ RoomFor(c)
    /\ LET r == create_instance(c, Container(c))
       IN  /\ Store(c, r.self)
           /\ last' = Call("ConfigContainer.create_instance", c, "", "", None,
                           None, r.result, r.ret)
    /\ UNCHANGED <<multiplicity, configuration_history, modification_count,
                   document, parse_result,
                   registry_vars, backend_vars>>

\* ConfigContainer.delete_instance called on the container directly.
Container_delete_instance(c, instance_id) ==
    /\ LET r == delete_instance(c, Container(c), instance_id)
       IN  /\ Store(c, r.self)
           /\ last' = Call("ConfigContainer.delete_instance", c, "", "",
                           instance_id, None, r.result, r.ret)
    /\ UNCHANGED <<multiplicity, configuration_history, modification_count,
                   document, parse_result,
                   registry_vars, backend_vars>>

\* ConfigContainer.set_variable_value called on the container directly.
Container_set_variable_value(c, var_name, value, instance_id) ==
    /\ LET r == set_variable_value(c, Container(c), var_name, value, instance_id)
       IN  /\ Store(c, r.self)
           /\ last' = Call("ConfigContainer.set_variable_value", c, var_name,
                           value, instance_id, None, r.result, r.ret)
    /\ UNCHANGED <<multiplicity, configuration_history, modification_count,
                   document, parse_result,
                   registry_vars, backend_vars>>

\* The variables of a container in dict (insertion) order.
ContainerVariableList ==
    [LinChannel |-> <<"LinChannelId", "LinChannelBaudRate">>,
     LinGeneral |-> <<"LinIndex">>]

\* for var_name, value in ...: container.set_variable_value(var_name, value,
\* instance_id), from the k-th variable on; the return values are ignored and
\* an IndexError ends the loop with what was written so far.
RECURSIVE SetEach(_, _, _, _, _)
SetEach(c, self, value_of, instance_id, k) ==
    IF k > Len(ContainerVariableList[c])
    THEN [self |-> self, result |-> "done"]
    ELSE LET var_name == ContainerVariableList[c][k]
             r == set_variable_value(c, self, var_name, value_of[var_name],
                                     instance_id)
         IN  IF r.result = "IndexError"
             THEN [self |-> r.self, result |-> "IndexError"]
             ELSE SetEach(c, r.self, value_of, instance_id, k + 1)

\* XDMProcessor.create_container_instance
XDM_create_container_instance(c) ==
    /\ RoomFor(c)
    /\ LET r == create_instance(c, Container(c))
       IN  /\ r.result = "int" => HistoryRoom
           /\ Store(c, r.self)
           /\ IF r.result = "int"
              THEN record_change("create_instance", c, [instance_id |-> r.ret])
              ELSE UNCHANGED <<configuration_history, modification_count>>
           /\ last' = Call("create_container_instance", c, "", "", None, None,
                           IF r.result = "int" THEN "int" ELSE "None", r.ret)
    /\ UNCHANGED <<multiplicity, document, parse_result,
                   registry_vars, backend_vars>>

\* XDMProcessor.add_instance
XDM_add_instance(c) ==
    /\ RoomFor(c)
    /\ LET r == create_instance(c, Container(c))
       IN  /\ r.result = "int" => HistoryRoom
           /\ Store(c, r.self)
           /\ IF r.result = "int"
              THEN record_change("add_instance", c,
                                 [instance_id |-> r.ret, action |-> "created"])
              ELSE UNCHANGED <<configuration_history, modification_count>>
           /\ last' = Call("add_instance", c, "", "", None, None,
                           IF r.result = "int" THEN "True" ELSE "False", None)
    /\ UNCHANGED <<multiplicity, document, parse_result,
                   registry_vars, backend_vars>>

\* XDMProcessor.delete_container_instance
XDM_delete_container_instance(c, instance_id) ==
    /\ LET r == delete_instance(c, Container(c), instance_id)
       IN  /\ r.result = "True" => HistoryRoom
           /\ Store(c, r.self)
           /\ IF r.result = "True"
              THEN record_change("delete_instance", c,
                                 [instance_id |-> instance_id])
              ELSE UNCHANGED <<configuration_history, modification_count>>
           /\ last' = Call("delete_container_instance", c, "", "", instance_id,
                           None, r.result, None)
    /\ UNCHANGED <<multiplicity, document, parse_result,
                   registry_vars, backend_vars>>

\* XDMProcessor.delete_instance (instance_id omitted: the current instance)
XDM_delete_instance(c, instance_id_arg) ==
    /\ LET instance_id == IF instance_id_arg = None THEN current_instance[c]
                          ELSE instance_id_arg
           r == delete_instance(c, Container(c), instance_id)
       IN  /\ r.result = "True" => HistoryRoom
           /\ Store(c, r.self)
           /\ IF r.result = "True"
              THEN record_change("delete_instance", c,
                                 [instance_id |-> instance_id,
                                  action |-> "deleted"])
              ELSE UNCHANGED <<configuration_history, modification_count>>
           /\ last' = Call("delete_instance", c, "", "", instance_id_arg, None,
                           r.result, None)
    /\ UNCHANGED <<multiplicity, document, parse_result,
                   registry_vars, backend_vars>>

\* XDMProcessor.set_variable_value on a live container. old_value is read
\* first; an IndexError of either call leaves the processor method.
XDM_set_variable_value(c, var_name, value, instance_id) ==
    /\ LET old == get_variable_value(c, Container(c), var_name, instance_id)
           r == IF old.result = "IndexError"
                THEN [self |-> Container(c), result |-> "IndexError",
                      ret |-> None]
                ELSE set_variable_value(c, Container(c), var_name, value,
                                        instance_id)
       IN  /\ r.result = "True" => HistoryRoom
           /\ Store(c, r.self)
           /\ IF r.result = "True"
              THEN record_change("modify_variable", c,
                       [variable |-> var_name,
                        \* instance_id or container.current_instance
                        instance_id |->
                            IF instance_id = None \/ instance_id = 0
                            THEN r.self.current_instance ELSE instance_id,
                        old_value |-> old.val,
                        new_value |-> value])
              ELSE UNCHANGED <<configuration_history, modification_count>>
           /\ last' = Call("set_variable_value", c, var_name, value,
                           instance_id, None, r.result, None)
    /\ UNCHANGED <<multiplicity, document, parse_result,
                   registry_vars, backend_vars>>

\* copy_instance as a bug would have it: source and target swapped in the
\* copying loop.
copy_instance_Swapped(c, self, source_instance_id, target_arg) ==
    IF ~(0 <= source_instance_id /\ source_instance_id < Len(self.instances))
    THEN [self |-> self, result |-> "False", ret |-> None]
    ELSE LET created == create_instance(c, self)
         IN  IF target_arg = None /\ created.result = "ValueError"
             THEN [self |-> self, result |-> "ValueError", ret |-> None]
             ELSE IF target_arg # None /\ target_arg >= Len(self.instances)
             THEN [self |-> self, result |-> "False", ret |-> None]
             ELSE LET target_instance_id ==
                          IF target_arg = None THEN created.ret ELSE target_arg
                      start ==
                          IF target_arg = None THEN created.self ELSE self
                      r == IF InRange(start.instances, target_instance_id)
                           THEN SetEach(c, start,
                                    start.instances[
                                        PyIndex(start.instances,
                                                target_instance_id)].variables,
                                    source_instance_id, 1)
                           ELSE [self |-> start, result |-> "IndexError"]
                  IN  [self |-> r.self,
                       result |-> IF r.result = "done" THEN "True"
                                  ELSE r.result,
                       ret |-> target_instance_id]

\* XDMProcessor.copy_instance: result "True", "False", or the exception that
\* leaves the method ("ValueError" from create_instance, "IndexError").
copy_instance(c, self, source_instance_id, target_arg) ==
    IF ~(0 <= source_instance_id /\ source_instance_id < Len(self.instances))
    THEN [self |-> self, result |-> "False", ret |-> None]
    ELSE LET created == create_instance(c, self)
         IN  IF target_arg = None /\ created.result = "ValueError"
             THEN [self |-> self, result |-> "ValueError", ret |-> None]
             ELSE IF target_arg # None /\ target_arg >= Len(self.instances)
             THEN [self |-> self, result |-> "False", ret |-> None]
             ELSE LET target_instance_id ==
                          IF target_arg = None THEN created.ret ELSE target_arg
                      start ==
                          IF target_arg = None THEN created.self ELSE self
                      source_vars ==
                          start.instances[source_instance_id + 1].variables
                      r == SetEach(c, start, source_vars, target_instance_id, 1)
                  IN  [self |-> r.self,
                       result |-> IF r.result = "done" THEN "True"
                                  ELSE r.result,
                       ret |-> target_instance_id]

XDM_copy_instance(c, source_instance_id, target_instance_id) ==
    /\ target_instance_id = None => RoomFor(c)
    /\ LET r == copy_instance(c, Container(c), source_instance_id,
                              target_instance_id)
       IN  /\ r.result = "True" => HistoryRoom
           /\ Store(c, r.self)
           /\ IF r.result = "True"
              THEN record_change("copy_instance", c,
                       [source_instance |-> source_instance_id,
                        target_instance |-> r.ret])
              ELSE UNCHANGED <<configuration_history, modification_count>>
           /\ last' = Call("copy_instance", c, "", "", source_instance_id,
                           target_instance_id, r.result, r.ret)
    /\ UNCHANGED <<multiplicity, document, parse_result,
                   registry_vars, backend_vars>>

\* reset_instance as a bug would have it: the range test on the given id, the
\* writes on the current instance.
reset_instance_WritesCurrent(c, self, instance_id_arg) ==
    LET instance_id == IF instance_id_arg = None THEN self.current_instance
                       ELSE instance_id_arg
    IN  IF 0 <= instance_id /\ instance_id < Len(self.instances)
        THEN LET r == SetEach(c, self,
                              [v \in ContainerVariables[c] |-> Default[v]],
                              self.current_instance, 1)
             IN  [self |-> r.self,
                  result |-> IF r.result = "done" THEN "True" ELSE r.result,
                  ret |-> instance_id]
        ELSE [self |-> self, result |-> "False", ret |-> None]

\* XDMProcessor.reset_instance (instance_id omitted: the current instance)
reset_instance(c, self, instance_id_arg) ==
    LET instance_id == IF instance_id_arg = None THEN self.current_instance
                       ELSE instance_id_arg
    IN  IF 0 <= instance_id /\ instance_id < Len(self.instances)
        THEN LET r == SetEach(c, self,
                              [v \in ContainerVariables[c] |-> Default[v]],
                              instance_id, 1)
             IN  [self |-> r.self,
                  result |-> IF r.result = "done" THEN "True" ELSE r.result,
                  ret |-> instance_id]
        ELSE [self |-> self, result |-> "False", ret |-> None]

XDM_reset_instance(c, instance_id) ==
    /\ LET r == reset_instance(c, Container(c), instance_id)
       IN  /\ r.result = "True" => HistoryRoom
           /\ Store(c, r.self)
           /\ IF r.result = "True"
              THEN record_change("reset_instance", c, [instance_id |-> r.ret])
              ELSE UNCHANGED <<configuration_history, modification_count>>
           /\ last' = Call("reset_instance", c, "", "", instance_id, None,
                           r.result, None)
    /\ UNCHANGED <<multiplicity, document, parse_result,
                   registry_vars, backend_vars>>

\* NextInstance as a bug would have it: no wrap from the last instance.
NextInstance_NoWrap(self) == self.current_instance + 1

\* (current + 1) % len(container.instances), for a container with instances.
NextInstance(self) == (self.current_instance + 1) % Len(self.instances)

\* XDMProcessor.switch_instance: result "True", "False", or the
\* "ZeroDivisionError" that leaves the method when instance_id is omitted and
\* the container has no instance.
switch_instance(c, self, instance_id_arg) ==
    IF instance_id_arg = None /\ Len(self.instances) = 0
    THEN [self |-> self, result |-> "ZeroDivisionError", ret |-> None]
    ELSE LET instance_id == IF instance_id_arg = None THEN NextInstance(self)
                            ELSE instance_id_arg
         IN  IF 0 <= instance_id /\ instance_id < Len(self.instances)
             THEN [self |-> [self EXCEPT !.current_instance = instance_id],
                   result |-> "True", ret |-> instance_id]
             ELSE [self |-> self, result |-> "False", ret |-> None]

XDM_switch_instance(c, instance_id) ==
    /\ LET r == switch_instance(c, Container(c), instance_id)
       IN  /\ r.result = "True" => HistoryRoom
           /\ Store(c, r.self)
           /\ IF r.result = "True"
              THEN record_change("switch_instance", c,
                       [old_instance |-> current_instance[c],
                        new_instance |-> r.ret])
              ELSE UNCHANGED <<configuration_history, modification_count>>
           /\ last' = Call("switch_instance", c, "", "", instance_id, None,
                           r.result, None)
    /\ UNCHANGED <<multiplicity, document, parse_result,
                   registry_vars, backend_vars>>

\* XDMProcessor.set_current_instance: no ChangeRecord is written.
XDM_set_current_instance(c, instance_id) ==
    /\ IF 0 <= instance_id /\ instance_id < Len(instances[c])
       THEN /\ current_instance' = [current_instance EXCEPT ![c] = instance_id]
            /\ last' = Call("set_current_instance", c, "", "", instance_id,
                            None, "True", None)
       ELSE /\ UNCHANGED current_instance
            /\ last' = Call("set_current_instance", c, "", "", instance_id,
                            None, "False", None)
    /\ UNCHANGED <<multiplicity, instances, variables, configuration_history,
                   modification_count, document, parse_result,
                   registry_vars, backend_vars>>

\* ResetSingle as a bug would have it: the instances are not emptied first.
ResetSingle_KeepsInstances(c, self) ==
    create_instance(c, [self EXCEPT !.current_instance = 0])

\* container.instances = []; container.current_instance = 0;
\* container.create_instance()  -- the 'values' lists are left as they are.
ResetSingle(c, self) ==
    create_instance(c, [self EXCEPT !.instances = <<>>,
                                    !.current_instance = 0])

\* XDMProcessor.reset_to_defaults: every container of all_containers, then the
\* history and the modification count.
XDM_reset_to_defaults ==
    /\ instances' = [c \in Containers |->
                        ResetSingle(c, Container(c)).self.instances]
    /\ variables' = [c \in Containers |->
                        ResetSingle(c, Container(c)).self.variables]
    /\ current_instance' =
           [c \in Containers |->
               ResetSingle(c, Container(c)).self.current_instance]
    /\ configuration_history' = <<>>
    /\ modification_count' = 0
    /\ last' = Call("reset_to_defaults", "", "", "", None, None, "None", None)
    /\ UNCHANGED <<multiplicity, document, parse_result,
                   registry_vars, backend_vars>>

\* XDMProcessor.reset_container: no ChangeRecord is written.
XDM_reset_container(c) ==
    /\ Store(c, ResetSingle(c, Container(c)).self)
    /\ last' = Call("reset_container", c, "", "", None, None, "True", None)
    /\ UNCHANGED <<multiplicity, configuration_history, modification_count,
                   document, parse_result,
                   registry_vars, backend_vars>>

\* XDMProcessor.reset_variable: the first container of all_containers that has
\* the variable gets its default written into the current instance; no
\* ChangeRecord is written.
XDM_reset_variable(var_name) ==
    /\ IF \E c \in Containers : var_name \in ContainerVariables[c]
       THEN LET c == CHOOSE d \in Containers :
                         var_name \in ContainerVariables[d]
                r == set_variable_value(c, Container(c), var_name,
                                        Default[var_name], None)
            IN  /\ Store(c, r.self)
                /\ last' = Call("reset_variable", c, var_name,
                                Default[var_name], None, None, r.result, None)
       ELSE /\ UNCHANGED <<instances, variables, current_instance>>
            /\ last' = Call("reset_variable", "", var_name, "", None, None,
                            "False", None)
    /\ UNCHANGED <<multiplicity, configuration_history, modification_count,
                   document, parse_result,
                   registry_vars, backend_vars>>

\* The instance_data dicts a caller passes to add_container_instance: the
\* next free id or 0, with the default values.
InstanceData(c) ==
    {[id |-> k, name |-> k, variables |-> DefaultSnapshot(c)] :
        k \in {0, Len(instances[c])}}

\* XDMProcessor.add_container_instance on a live container that the parsed
\* flat map does not hold: instance_data is appended as it is; the value
\* lists and the multiplicity are not looked at, no ChangeRecord is written.
XDM_add_container_instance(c, instance_data) ==
    /\ RoomFor(c)
    /\ instances' = [instances EXCEPT ![c] = Append(@, instance_data)]
    /\ last' = Call("add_container_instance", c, "", "", instance_data.id,
                    None, "True", None)
    /\ UNCHANGED <<multiplicity, variables, current_instance,
                   configuration_history, modification_count,
                   document, parse_result,
                   registry_vars, backend_vars>>

\* XDMProcessor.remove_container_instance: "False" when
\* len(instances) <= instance_id, and when the pop raises IndexError, which
\* the method catches; else the instance list after instances.pop(instance_id).
remove_container_instance(self, instance_id) ==
    IF Len(self.instances) <= instance_id \/ ~InRange(self.instances, instance_id)
    THEN [self |-> self, result |-> "False", ret |-> None]
    ELSE [self |->
             [self EXCEPT
                 !.instances =
                     Pop(self.instances, PyIndex(self.instances, instance_id) - 1)],
          result |-> "True", ret |-> None]

\* The value lists, the ids of the remaining instances and current_instance
\* are left as they are; no ChangeRecord is written.
XDM_remove_container_instance(c, instance_id) ==
    /\ LET r == remove_container_instance(Container(c), instance_id)
       IN  /\ Store(c, r.self)
           /\ last' = Call("remove_container_instance", c, "", "", instance_id,
                           None, r.result, None)
    /\ UNCHANGED <<multiplicity, configuration_history, modification_count,
                   document, parse_result,
                   registry_vars, backend_vars>>

\* ---------------------------------------------------------------- documents
\* A file: whether it exists, whether its text is well-formed XML, and the
\* element tree ElementTree builds from it.  nodes lists the elements in
\* document order; an element is
\*   tag       the tag without namespace,
\*   parent    the position of its parent (0 for the root element),
\*   name      the text of its SHORT-NAME child ("" when it has none),
\*   attr_name its name="..." attribute ("" when it has none),
\*   default   the text of its DEFAULT-VALUE child ("" when it has none).
Element(tag, parent, name, attr_name, default) ==
    [tag |-> tag, parent |-> parent, name |-> name, attr_name |-> attr_name,
     default |-> default]

File(nodes) == [exists |-> TRUE, well_formed |-> TRUE, nodes |-> nodes,
                added |-> 0]

\* No file at the given path.
NoFile == [exists |-> FALSE, well_formed |-> FALSE, nodes |-> <<>>,
           added |-> 0]

\* A file whose text is not well-formed XML: ET.parse raises ParseError.
BrokenFile == [exists |-> TRUE, well_formed |-> FALSE, nodes |-> <<>>,
               added |-> 0]

\* A definition document down to the CONTAINERS element of its module.
ModuleDocument ==
    File(<<Element("AUTOSAR", 0, "", "", ""),
           Element("AR-PACKAGES", 1, "", "", ""),
           Element("AR-PACKAGE", 2, "Pkg", "", ""),
           Element("ELEMENTS", 3, "", "", ""),
           Element("ECUC-MODULE-DEF", 4, "Mod", "", ""),
           Element("CONTAINERS", 5, "", "", "")>>)

\* The same with the module in a package nested in another package.
NestedPackageDocument ==
    File(<<Element("AUTOSAR", 0, "", "", ""),
           Element("AR-PACKAGES", 1, "", "", ""),
           Element("AR-PACKAGE", 2, "Pkg", "", ""),
           Element("AR-PACKAGES", 3, "", "", ""),
           Element("AR-PACKAGE", 4, "Sub", "", ""),
           Element("ELEMENTS", 5, "", "", ""),
           Element("ECUC-MODULE-DEF", 6, "Mod", "", ""),
           Element("CONTAINERS", 7, "", "", "")>>)

\* A document with a package and nothing in it.
EmptyPackageDocument ==
    File(<<Element("AUTOSAR", 0, "", "", ""),
           Element("AR-PACKAGES", 1, "", "", ""),
           Element("AR-PACKAGE", 2, "Pkg", "", "")>>)

\* A document that is one childless root element.
RootOnlyDocument == File(<<Element("AUTOSAR", 0, "", "", "")>>)

\* An XDM data model: a container and a variable, named by attributes.
XdmDocument ==
    File(<<Element("datamodel", 0, "", "", ""),
           Element("ctr", 1, "", "Lin", ""),
           Element("var", 2, "", "LinIndex", "")>>)

\* The data model a processor is made from: the module container, three of
\* the variables the shape lists (LinTimeoutDuration is not among them), and
\* a container the shape does not have.  A var carries its default attribute.
LinDocument ==
    File(<<Element("datamodel", 0, "", "", ""),
           Element("ctr", 1, "", "Lin", ""),
           Element("var", 2, "", "LinIndex", "0"),
           Element("var", 2, "", "LinChannelId", "0"),
           Element("var", 2, "", "LinChannelBaudRate", "1"),
           Element("ctr", 1, "", "Custom", "")>>)

\* The data models a processor is made from, before elements are added.
XdmFiles ==
    {NoFile, BrokenFile, File(<<Element("datamodel", 0, "", "", "")>>),
     XdmDocument, LinDocument}

Files ==
    {NoFile, BrokenFile, ModuleDocument, NestedPackageDocument,
     EmptyPackageDocument, RootOnlyDocument, XdmDocument}

\* SHORT-NAMEs given to added containers and parameters.
Names == {"A", "B"}

\* The child elements a definition document may hold under each element.
ChildTags(tag) ==
    CASE tag = "CONTAINERS" -> {"ECUC-PARAM-CONF-CONTAINER-DEF"}
      [] tag = "SUB-CONTAINERS" -> {"ECUC-PARAM-CONF-CONTAINER-DEF"}
      [] tag = "ECUC-PARAM-CONF-CONTAINER-DEF" ->
             {"PARAMETERS", "SUB-CONTAINERS"}
      [] tag = "PARAMETERS" ->
             {"ECUC-INTEGER-PARAM-DEF", "ECUC-BOOLEAN-PARAM-DEF"}
      [] OTHER -> {}

\* Elements that carry a SHORT-NAME.
NamedTags ==
    {"ECUC-PARAM-CONF-CONTAINER-DEF", "ECUC-INTEGER-PARAM-DEF",
     "ECUC-BOOLEAN-PARAM-DEF"}

\* The DEFAULT-VALUE written into an added parameter definition.
DefaultOf(tag) ==
    CASE tag = "ECUC-INTEGER-PARAM-DEF" -> "5"
      [] tag = "ECUC-BOOLEAN-PARAM-DEF" -> "true"
      [] OTHER -> ""

\* The positions of the elements of a tree, in document order.
Positions(nodes) == [k \in 1..Len(nodes) |-> k]

\* The ancestors of the element at position j.
RECURSIVE Ancestors(_, _)
Ancestors(nodes, j) ==
    IF nodes[j].parent = 0 THEN {}
    ELSE {nodes[j].parent} \cup Ancestors(nodes, nodes[j].parent)

\* for child in element: the direct children, in document order.
Children(nodes, i) ==
    SelectSeq(Positions(nodes), LAMBDA j : nodes[j].parent = i)

\* ------------------------------------------------------------ XMLProcessor
\* XMLProcessor.parse: the position of the root element, or None when
\* ET.parse / ET.iterparse raise (no file, or text that is not well-formed).
parse(file) == IF file.exists /\ file.well_formed THEN 1 ELSE None

\* XMLProcessor.find_elements: parent_element.findall(".//tag_name"), every
\* descendant with that tag, at any depth, in document order.
find_elements(nodes, tag_name, parent_element) ==
    SelectSeq(Positions(nodes),
              LAMBDA j : /\ nodes[j].tag = tag_name
                         /\ parent_element \in Ancestors(nodes, j))

\* XMLProcessor.get_child_element_text for the child tags the walker reads.
get_child_element_text(nodes, parent, child_tag) ==
    CASE child_tag = "SHORT-NAME" -> nodes[parent].name
      [] child_tag = "DEFAULT-VALUE" -> nodes[parent].default
      [] OTHER -> ""

\* word in tag, for the tags of the documents and the words the walker
\* searches for.
TagContains(tag, word) ==
    \/ tag = "ECUC-INTEGER-PARAM-DEF" /\ word \in {"INTEGER", "PARAM-DEF"}
    \/ tag = "ECUC-BOOLEAN-PARAM-DEF" /\ word \in {"BOOLEAN", "PARAM-DEF"}

\* get_param_type_from_tag as a bug would have it: the default for every tag.
get_param_type_from_tag_Default(tag) == "STRING"

\* XMLProcessor._get_param_type_from_tag
get_param_type_from_tag(tag) ==
    IF TagContains(tag, "INTEGER") THEN "INTEGER"
    ELSE IF TagContains(tag, "BOOLEAN") THEN "BOOLEAN"
    ELSE IF TagContains(tag, "FLOAT") THEN "FLOAT"
    ELSE IF TagContains(tag, "ENUMERATION") THEN "ENUMERATION"
    ELSE IF TagContains(tag, "FUNCTION-NAME") THEN "FUNCTION_NAME"
    ELSE IF TagContains(tag, "REFERENCE") THEN "REFERENCE"
    ELSE "STRING"

\* One write containers[path] = {...} or parameters[path] = {...} of the
\* walker, with the element it was made from.  parent_path is the
\* 'parent_path' of a container (<<>> for a module's None) and the
\* 'container_path' of a parameter.  A path "a/b/c" is the sequence of its
\* names; the 'children' and 'parameters' members of a container entry are
\* not kept.
Registration(kind, path, element, name, type, parent_path, default) ==
    [kind |-> kind, path |-> path, element |-> element, name |-> name,
     type |-> type, parent_path |-> parent_path, default |-> default]

\* XMLProcessor._extract_parameter_defs: the writes it makes, in order.
extract_parameter_defs(nodes, params_element, container_path) ==
    LET param_defs ==
            SelectSeq(Children(nodes, params_element),
                      LAMBDA q :
                          /\ \/ TagContains(nodes[q].tag, "PARAM-DEF")
                             \/ TagContains(nodes[q].tag, "REFERENCE-DEF")
                          /\ get_child_element_text(nodes, q, "SHORT-NAME")
                               # "")
    IN  [k \in 1..Len(param_defs) |->
            LET param_def == param_defs[k]
                param_name ==
                    get_child_element_text(nodes, param_def, "SHORT-NAME")
            IN  Registration("parameter",
                             Append(container_path, param_name),
                             param_def, param_name,
                             get_param_type_from_tag(nodes[param_def].tag),
                             container_path,
                             get_child_element_text(nodes, param_def,
                                                    "DEFAULT-VALUE"))]

\* XMLProcessor._recursive_extract: the writes it makes, in order.
\* ExtractEach is its loop over container_defs from the k-th on.
RECURSIVE recursive_extract(_, _, _)
RECURSIVE ExtractEach(_, _, _, _)
ExtractEach(nodes, container_defs, k, parent_path) ==
    IF k > Len(container_defs) THEN <<>>
    ELSE LET container_def == container_defs[k]
             container_name ==
                 get_child_element_text(nodes, container_def, "SHORT-NAME")
             container_path == Append(parent_path, container_name)
             params_elements ==
                 find_elements(nodes, "PARAMETERS", container_def)
             sub_containers_elements ==
                 find_elements(nodes, "SUB-CONTAINERS", container_def)
         IN  (IF container_name = "" THEN <<>>
              ELSE <<Registration("container", container_path,
                                  container_def, container_name,
                                  "container_definition", parent_path, "")>>
                   \o (IF params_elements # <<>>
                       THEN extract_parameter_defs(nodes, params_elements[1],
                                                   container_path)
                       ELSE <<>>)
                   \o (IF sub_containers_elements # <<>>
                       THEN recursive_extract(nodes,
                                sub_containers_elements[1], container_path)
                       ELSE <<>>))
             \o ExtractEach(nodes, container_defs, k + 1, parent_path)

recursive_extract(nodes, element, parent_path) ==
    ExtractEach(nodes,
                find_elements(nodes, "ECUC-PARAM-CONF-CONTAINER-DEF", element),
                1, parent_path)

\* for p in parents: for e in find_elements(tag_name, p), from the k-th
\* parent on: the elements visited, in order.
RECURSIVE FindIn(_, _, _, _)
FindIn(nodes, tag_name, parents, k) ==
    IF k > Len(parents) THEN <<>>
    ELSE find_elements(nodes, tag_name, parents[k])
         \o FindIn(nodes, tag_name, parents, k + 1)

\* The module definitions the loops of extract_structure visit, in order.
ModuleDefs(nodes, root) ==
    LET packages == find_elements(nodes, "AR-PACKAGE", root)
        ar_packages == IF packages # <<>> THEN packages
                       ELSE find_elements(nodes, "AR-PACKAGES", root)
    IN  FindIn(nodes, "ECUC-MODULE-DEF",
               FindIn(nodes, "ELEMENTS", ar_packages, 1), 1)

\* The body of the innermost loop of extract_structure, from the k-th module
\* definition on: the writes it makes, in order.
RECURSIVE ModuleEach(_, _, _)
ModuleEach(nodes, module_defs, k) ==
    IF k > Len(module_defs) THEN <<>>
    ELSE LET mod_def == module_defs[k]
             module_name ==
                 get_child_element_text(nodes, mod_def, "SHORT-NAME")
             containers_element == find_elements(nodes, "CONTAINERS", mod_def)
         IN  (IF module_name = "" THEN <<>>
              ELSE <<Registration("container", <<module_name>>, mod_def,
                                  module_name, "module_definition", <<>>,
                                  "")>>
                   \o (IF containers_element # <<>>
                       THEN recursive_extract(nodes, containers_element[1],
                                              <<module_name>>)
                       ELSE <<>>))
             \o ModuleEach(nodes, module_defs, k + 1)

\* Every write of extract_structure to its two maps, in order.
Registrations(nodes, root) == ModuleEach(nodes, ModuleDefs(nodes, root), 1)

\* The dict that a sequence of writes leaves: for each path the last entry
\* written under it.
MapOf(regs, kind) ==
    LET written == {k \in 1..Len(regs) : regs[k].kind = kind}
        last_at(path) ==
            CHOOSE k \in written :
                /\ regs[k].path = path
                /\ \A m \in written : regs[m].path = path => m <= k
    IN  [path \in {regs[k].path : k \in written} |->
            [name |-> regs[last_at(path)].name,
             path |-> path,
             type |-> regs[last_at(path)].type,
             parent_path |-> regs[last_at(path)].parent_path,
             default |-> regs[last_at(path)].default]]

\* XMLProcessor.extract_structure
extract_structure(nodes, root) ==
    [containers |-> MapOf(Registrations(nodes, root), "container"),
     parameters |-> MapOf(Registrations(nodes, root), "parameter")]

\* What the last parse call gave its caller:
\*   op, kind         the call and the file kind it was made for,
\*   typed, extracted what autosar44.parse and the schema-aware extraction
\*                    did in that call ("" where they did not run),
\*   success          the boolean result / the "success" member,
\*   walker_ran       whether XMLProcessor.parse was called,
\*   containers, parameters   the maps the caller reads afterwards,
\*   children, tree_parameters   the lengths of the returned tree's
\*                    "children" and "parameters" lists.
ParseResult(op, kind, typed, extracted, success, walker_ran, container_map, parameter_map, children, tree_parameters) ==
    [op |-> op, kind |-> kind, typed |-> typed, extracted |-> extracted,
     success |-> success, walker_ran |-> walker_ran,
     containers |-> container_map, parameters |-> parameter_map,
     children |-> children, tree_parameters |-> tree_parameters]

\* No parse call made yet.
NoParse == ParseResult("", "", "", "", FALSE, FALSE, <<>>, <<>>, 0, 0)

\* The document gains one element, appended at the end of the document under
\* an element of the last branch: a container definition, its PARAMETERS or
\* SUB-CONTAINERS list (at most one of each, PARAMETERS first, as the schema
\* orders them), or a parameter definition.  Siblings carry different
\* SHORT-NAMEs.
AddElement(tag, parent, name) ==
    LET nodes == document.nodes
        siblings == {j \in 1..Len(nodes) : nodes[j].parent = parent}
    IN  /\ parse_result = NoParse
        /\ document.exists /\ document.well_formed
        /\ document.added < MaxElements
        /\ parent \in {Len(nodes)} \cup Ancestors(nodes, Len(nodes))
        /\ tag \in ChildTags(nodes[parent].tag)
        /\ IF tag \in NamedTags
           THEN /\ name \in Names
                /\ \A j \in siblings : nodes[j].name # name
           ELSE /\ name = ""
                /\ \A j \in siblings :
                       nodes[j].tag \notin {tag, "SUB-CONTAINERS"}
        /\ document' =
               [document EXCEPT
                   !.nodes = Append(nodes, Element(tag, parent, name, "",
                                                   DefaultOf(tag))),
                   !.added = @ + 1]
        /\ UNCHANGED <<multiplicity, instances, variables, current_instance,
                       configuration_history, modification_count, last,
                       parse_result,
                   registry_vars, backend_vars>>

\* if not root: None, and also an Element without children, which is false
\* as a condition.
RootIsFalse(file, root) == root = None \/ Children(file.nodes, root) = <<>>

\* XMLProcessor.parse followed by extract_structure on the root it returned.
XML_extract_structure ==
    LET root == parse(document)
        structure == extract_structure(document.nodes, root)
    IN  /\ root # None
        /\ parse_result' =
               ParseResult("extract_structure", "", "", "", TRUE, TRUE,
                           structure.containers, structure.parameters, 0, 0)
        /\ UNCHANGED <<multiplicity, instances, variables, current_instance,
                       configuration_history, modification_count, last,
                       document,
                   registry_vars, backend_vars>>

\* ------------------------------------------------------------ ARXMLProcessor
\* What autosar44.parse can do with a file: raise, return a string (verbose
\* mode), return an empty result, or return a document object (only for
\* well-formed text).
TypedOutcomes(file) ==
    {"raises", "str", "empty"}
        \cup (IF file.well_formed THEN {"object"} ELSE {})

\* What _extract_packages, _extract_module_configurations and
\* _build_container_hierarchy leave in self.containers / self.variables:
\* nothing, or something.
Extractions == {"none", "some"}

\* A non-empty map left by the schema-aware extraction; its entries are not
\* modelled.
TypedMap == [path \in {<<"autosar44">>} |-> "entry"]

\* ARXMLProcessor._parse_with_xml_processor
parse_with_xml_processor(file, typed, extracted) ==
    LET root == parse(file)
        structure == extract_structure(file.nodes, root)
    IN  IF RootIsFalse(file, root)
        THEN ParseResult("parse_arxml_file", "arxml", typed, extracted,
                         FALSE, TRUE, <<>>, <<>>, 0, 0)
        ELSE ParseResult("parse_arxml_file", "arxml", typed, extracted,
                         TRUE, TRUE, structure.containers,
                         structure.parameters, 0, 0)

\* ARXMLProcessor.parse_arxml_file on a fresh processor.
parse_arxml_file(file, is_bswmd, typed, extracted) ==
    IF ~file.exists
    THEN ParseResult("parse_arxml_file", "arxml", "", "", FALSE, FALSE,
                     <<>>, <<>>, 0, 0)
    ELSE IF typed = "raises"
    THEN ParseResult("parse_arxml_file", "arxml", typed, "", FALSE, FALSE,
                     <<>>, <<>>, 0, 0)
    ELSE IF is_bswmd \/ typed = "str"
    THEN parse_with_xml_processor(file, typed, "")
    ELSE IF typed = "empty"
    THEN parse_with_xml_processor(file, typed, "")
    ELSE IF extracted = "none"
    THEN parse_with_xml_processor(file, typed, extracted)
    ELSE ParseResult("parse_arxml_file", "arxml", typed, extracted, TRUE,
                     FALSE, TypedMap, TypedMap, 0, 0)

ARXML_parse_arxml_file(is_bswmd, typed, extracted) ==
    /\ typed \in TypedOutcomes(document)
    /\ parse_result' = parse_arxml_file(document, is_bswmd, typed, extracted)
    /\ UNCHANGED <<multiplicity, instances, variables, current_instance,
                   configuration_history, modification_count, last,
                   document,
                   registry_vars, backend_vars>>

\* ------------------------------------------------------------ VSCodeBackend
\* VSCodeBackend._detect_file_type: the kinds a suffix is mapped to.
FileKinds == {"arxml", "bmd", "xdm", "xml"}

\* VSCodeBackend._error_response
error_response ==
    ParseResult("parse_file", "unknown", "", "", FALSE, FALSE, <<>>, <<>>,
                0, 0)

\* VSCodeBackend._is_valid_arxml for a root without attributes.
is_valid_arxml(nodes, root) == nodes[root].tag = "AUTOSAR"

\* ARXMLTreeBuilder.build_davinci_tree: the number of children of the virtual
\* root, one per (named package, module definition below it).
DavinciChildren(nodes) ==
    LET packages ==
            SelectSeq(find_elements(nodes, "AR-PACKAGE", 1),
                      LAMBDA j : nodes[j].name # "")
    IN  Len(FindIn(nodes, "ECUC-MODULE-DEF", packages, 1))

\* VSCodeBackend._parse_arxml_file
Backend_parse_arxml_file(file, kind) ==
    IF ~file.well_formed THEN error_response
    ELSE IF ~is_valid_arxml(file.nodes, 1) THEN error_response
    ELSE ParseResult("parse_file", kind, "", "", TRUE, FALSE, <<>>, <<>>,
                     DavinciChildren(file.nodes), 0)

\* Tags XDMProcessor._extract_containers takes for containers.
IsContainerTag(tag) ==
    tag \in {"ctr", "AR-PACKAGE", "ECUC-MODULE-DEF",
             "ECUC-PARAM-CONF-CONTAINER-DEF", "CONTAINERS", "SUB-CONTAINERS"}

\* XDMProcessor.parse_xdm_file / _extract_containers: the container names
\* found; nothing when ET.parse raises, which parse_xdm_file catches.
XdmContainers(file) ==
    IF ~file.well_formed THEN {}
    ELSE {file.nodes[j].attr_name :
             j \in {k \in 1..Len(file.nodes) :
                       /\ IsContainerTag(file.nodes[k].tag)
                       /\ file.nodes[k].attr_name # ""}}

\* VSCodeBackend._parse_xdm_file: the constructor's parse result is not
\* looked at.
Backend_parse_xdm_file(file) ==
    ParseResult("parse_file", "xdm", "", "", TRUE, FALSE, <<>>, <<>>,
                Cardinality(XdmContainers(file)), 0)

\* VSCodeBackend._parse_xml_file
Backend_parse_xml_file(file, kind) ==
    IF ~file.well_formed THEN error_response
    ELSE ParseResult("parse_file", kind, "", "", TRUE, FALSE, <<>>, <<>>,
                     Len(Children(file.nodes, 1)), 0)

\* VSCodeBackend.parse_file
parse_file(file, kind) ==
    IF ~file.exists THEN error_response
    ELSE IF kind \in {"arxml", "bmd"} THEN Backend_parse_arxml_file(file, kind)
    ELSE IF kind = "xdm" THEN Backend_parse_xdm_file(file)
    ELSE Backend_parse_xml_file(file, "xml")

\* The kind member of the record keeps the kind the call was made for, also
\* where the response reports "unknown".
Backend_parse_file(kind) ==
    /\ parse_result' = [parse_file(document, kind) EXCEPT !.kind = kind]
    /\ UNCHANGED <<multiplicity, instances, variables, current_instance,
                   configuration_history, modification_count, last,
                   document,
                   registry_vars, backend_vars>>

\* ------------------------------------------------ the container registry
\* A container path "a/b" is the sequence <<"a", "b">> of its parts; "" is
\* the empty sequence.

\* tree_structure of _build_proper_tree_structure: each container of the
\* canonical shape with the container it is a child of ("" at root level).
ShapeParent ==
    [Lin |-> "", LinDemEventParameterRefs |-> "Lin", LinGeneral |-> "Lin",
     LinGlobalConfig |-> "Lin", LinChannel |-> "LinGlobalConfig",
     CommonPublishedInformation |-> "Lin"]

ShapeNames == DOMAIN ShapeParent

\* The 'variables' the shape lists for each container (a subset of the
\* longer lists).
ShapeVariables ==
    [Lin |-> {"IMPLEMENTATION_CONFIG_VARIANT"},
     LinDemEventParameterRefs |-> {},
     LinGeneral |-> {"LinIndex", "LinTimeoutDuration"},
     LinGlobalConfig |-> {},
     LinChannel |-> {"LinChannelId", "LinChannelBaudRate"},
     CommonPublishedInformation |-> {"ModuleId"}]

\* Tags XDMProcessor._extract_variables takes for variable definitions:
\* 'var', or a tag with 'variable' or 'param' in it.
IsVariableTag(tag) ==
    tag \in {"var", "PARAMETERS", "ECUC-INTEGER-PARAM-DEF",
             "ECUC-BOOLEAN-PARAM-DEF"}

\* XDMProcessor.parse_xdm_file / _extract_variables: the names of the
\* variable definitions found; nothing when ET.parse raises.
XdmVariables(file) ==
    IF ~file.well_formed THEN {}
    ELSE {file.nodes[j].attr_name :
             j \in {k \in 1..Len(file.nodes) :
                       /\ IsVariableTag(file.nodes[k].tag)
                       /\ file.nodes[k].attr_name # ""}}

\* A ConfigContainer as the registry sees it: its name, the key its parent
\* object was registered under (the empty path for parent None), its child
\* map, the names of its variables, and len(instances).  An entry of a child
\* map is the ConfigContainer registered under 'key', or a plain dict.
ConfigContainer(name, parent) ==
    [name |-> name, parent |-> parent, children |-> <<>>, variables |-> {},
     instance_count |-> 0]

\* ConfigContainer.add_child_container
add_child_container(self, child_key) ==
    [self EXCEPT !.children =
        [m \in DOMAIN @ \cup {child_key[Len(child_key)]} |->
            IF m = child_key[Len(child_key)]
            THEN [kind |-> "ConfigContainer", key |-> child_key]
            ELSE @[m]]]

\* The containers of the shape in the order the recursion creates them:
\* each before its children.
ShapeOrder ==
    <<"Lin", "LinDemEventParameterRefs", "LinGeneral", "LinGlobalConfig",
      "LinChannel", "CommonPublishedInformation">>

\* for var_name in container_info.get('variables', []): if var_name in
\* variables_data: container.add_variable(...)
AttachedVariables_Flat(container_name, variables_data) == variables_data

AttachedVariables(container_name, variables_data) ==
    ShapeVariables[container_name] \cap variables_data

\* XDMProcessor._create_containers_from_structure: the registry after the
\* containers k.. of ShapeOrder were created on top of 'registry'.  Each
\* container is registered under its NAME, is put into its parent's child
\* map, and gets the listed variables that the flat variable map holds.
RECURSIVE create_containers_from_structure(_, _, _)
create_containers_from_structure(registry, variables_data, k) ==
    IF k > Len(ShapeOrder) THEN registry
    ELSE LET container_name == ShapeOrder[k]
             parent_name == ShapeParent[container_name]
             parent_key == IF parent_name = "" THEN <<>>
                           ELSE <<parent_name>>
             own_key == <<container_name>>
             container ==
                 [ConfigContainer(container_name, parent_key) EXCEPT
                     !.variables =
                         AttachedVariables(container_name, variables_data)]
             keys == DOMAIN registry \cup {own_key}
             added ==
                 [key \in keys |->
                     IF key = own_key THEN container
                     ELSE IF key = parent_key
                     THEN add_child_container(registry[key], own_key)
                     ELSE registry[key]]
         IN  create_containers_from_structure(added, variables_data, k + 1)

\* XDMProcessor._create_default_instances
create_default_instances(registry) ==
    [key \in DOMAIN registry |->
        [registry[key] EXCEPT !.instance_count = @ + 1]]

\* The registry an operation works on: the keys of self.containers and
\* self.all_containers.
Registry(flat, live) == [containers |-> flat, all_containers |-> live]

\* len(container.instances) of a registered container: the instance list of
\* the two containers whose instances are followed one by one, the count kept
\* with the object for the others.
InstanceCount(key, container) ==
    IF Len(key) = 1 /\ key[1] \in Containers
    THEN Len(instances[key[1]])
    ELSE container.instance_count

\* XDMProcessor.get_container: the registered object; else, for a path of the
\* flat map, a ConfigContainer made for this call alone (the parsed
\* 'variables' are name strings, none of which is added); else None.
get_container(registry, container_path) ==
    IF container_path \in DOMAIN registry.all_containers
    THEN [kind |-> "registered",
          container |-> registry.all_containers[container_path]]
    ELSE IF container_path \in registry.containers
    THEN [kind |-> "temporary",
          container |->
              ConfigContainer(container_path[Len(container_path)], <<>>)]
    ELSE [kind |-> "None", container |-> ConfigContainer("", <<>>)]

\* '/'.join(parts[:-1])
ParentPath(path) == SubSeq(path, 1, Len(path) - 1)

\* XDMProcessor.create_sub_container: ConfigContainer(...) is called with a
\* 'path' keyword it does not take; the TypeError is caught and False
\* returned, after the two lookups.
create_sub_container(registry, parent_path, container_name) ==
    [registry |-> registry, result |-> FALSE]

\* copy_options of duplicate_container.
CopyOptions ==
    [copy_variables : BOOLEAN, copy_instances : BOOLEAN,
     copy_children : BOOLEAN]

\* XDMProcessor.duplicate_container without the recursion over the children:
\* the new container has no parent and an empty child map; it is registered
\* under the target path in both maps; a registered parent gets a plain dict
\* under the target name.
DuplicateOne(registry, source_path, target_path, copy_options) ==
    LET source == get_container(registry, source_path)
        target_name == target_path[Len(target_path)]
        target_parent_path == ParentPath(target_path)
        new_container ==
            [ConfigContainer(target_name, <<>>) EXCEPT
                !.variables = IF copy_options.copy_variables
                              THEN source.container.variables ELSE {},
                !.instance_count =
                    IF ~copy_options.copy_instances THEN 0
                    ELSE IF source.kind = "registered"
                    THEN InstanceCount(source_path, source.container)
                    ELSE 0]
        keys == DOMAIN registry.all_containers \cup {target_path}
        registered ==
            [key \in keys |->
                IF key = target_path THEN new_container
                ELSE registry.all_containers[key]]
        with_parent ==
            IF target_parent_path # <<>>
               /\ target_parent_path \in DOMAIN registered
            THEN [registered EXCEPT
                    ![target_parent_path].children =
                        [m \in DOMAIN @ \cup {target_name} |->
                            IF m = target_name
                            THEN [kind |-> "dict", key |-> target_path]
                            ELSE @[m]]]
            ELSE registered
    IN  Registry(registry.containers \cup {target_path}, with_parent)

\* Whether duplicate_container gets past its two lookups.
CanDuplicate(registry, source_path, target_path) ==
    /\ get_container(registry, source_path).kind # "None"
    /\ get_container(registry, target_path).kind = "None"

\* XDMProcessor.duplicate_container: with copy_children, each child of the
\* source is duplicated from source_path/child_name to
\* target_path/child_name, whatever that call returns.
RECURSIVE duplicate_container(_, _, _, _)
RECURSIVE DuplicateChildren(_, _, _, _, _)
DuplicateChildren(registry, names, source_path, target_path, copy_options) ==
    IF names = {} THEN registry
    ELSE LET child_name == CHOOSE m \in names : TRUE
             copied == duplicate_container(
                           registry, Append(source_path, child_name),
                           Append(target_path, child_name), copy_options)
         IN  DuplicateChildren(copied.registry, names \ {child_name},
                               source_path, target_path, copy_options)

duplicate_container(registry, source_path, target_path, copy_options) ==
    IF ~CanDuplicate(registry, source_path, target_path)
    THEN [registry |-> registry, result |-> FALSE]
    ELSE LET source == get_container(registry, source_path)
             copied == DuplicateOne(registry, source_path, target_path,
                                    copy_options)
         IN  [registry |->
                  IF copy_options.copy_children
                  THEN DuplicateChildren(
                           copied, DOMAIN source.container.children,
                           source_path, target_path, copy_options)
                  ELSE copied,
              result |-> TRUE]

\* del self.containers[path]; del self.all_containers[path]
Unregister(registry, container_path) ==
    Registry(registry.containers \ {container_path},
             [key \in DOMAIN registry.all_containers \ {container_path} |->
                 registry.all_containers[key]])

\* del parent_container.children[container_name], for a registered parent
\* that holds the name; a parent made for the call alone is thrown away.
RemoveChild(registry, parent_path, container_name) ==
    IF parent_path # <<>>
       /\ parent_path \in DOMAIN registry.all_containers
       /\ container_name \in
              DOMAIN registry.all_containers[parent_path].children
    THEN [registry EXCEPT
            !.all_containers[parent_path].children =
                [m \in DOMAIN @ \ {container_name} |-> @[m]]]
    ELSE registry

\* XDMProcessor.delete_container: the children are deleted by the paths
\* container_path/child_name, whatever those calls return; the path leaves
\* both maps; the parent looked up by the path before the last '/' loses the
\* name from its child map.  root_containers is left alone.
RECURSIVE delete_container(_, _)
RECURSIVE DeleteChildren(_, _, _)
DeleteChildren(registry, names, container_path) ==
    IF names = {} THEN registry
    ELSE LET child_name == CHOOSE m \in names : TRUE
             deleted == delete_container(
                            registry, Append(container_path, child_name))
         IN  DeleteChildren(deleted.registry, names \ {child_name},
                            container_path)

delete_container(registry, container_path) ==
    LET found == get_container(registry, container_path)
    IN  IF found.kind = "None"
        THEN [registry |-> registry, result |-> FALSE]
        ELSE LET container_name == container_path[Len(container_path)]
                 parent_path == ParentPath(container_path)
                 without_children ==
                     DeleteChildren(registry,
                                    DOMAIN found.container.children,
                                    container_path)
             IN  [registry |->
                      RemoveChild(Unregister(without_children,
                                             container_path),
                                  parent_path, container_name),
                  result |-> TRUE]

\* XDMProcessor.create_sub_container
XDM_create_sub_container(parent_path, container_name) ==
    LET done == create_sub_container(Registry(containers, all_containers),
                                     parent_path, container_name)
    IN  /\ containers' = done.registry.containers
        /\ all_containers' = done.registry.all_containers
        /\ last' = Call("create_sub_container", "", "", "", None, None,
                        IF done.result THEN "True" ELSE "False", None)
        /\ UNCHANGED <<multiplicity, instances, variables, current_instance,
                       configuration_history, modification_count,
                       document, parse_result, root_containers,
                       backend_vars>>

\* XDMProcessor.duplicate_container
XDM_duplicate_container(source_path, target_path, copy_options) ==
    LET done == duplicate_container(Registry(containers, all_containers),
                                    source_path, target_path, copy_options)
    IN  /\ containers' = done.registry.containers
        /\ all_containers' = done.registry.all_containers
        /\ last' = Call("duplicate_container", "", "", "", None, None,
                        IF done.result THEN "True" ELSE "False", None)
        /\ UNCHANGED <<multiplicity, instances, variables, current_instance,
                       configuration_history, modification_count,
                       document, parse_result, root_containers,
                       backend_vars>>

\* XDMProcessor.delete_container
XDM_delete_container(container_path) ==
    LET done == delete_container(Registry(containers, all_containers),
                                 container_path)
    IN  /\ containers' = done.registry.containers
        /\ all_containers' = done.registry.all_containers
        /\ last' = Call("delete_container", "", "", "", None, None,
                        IF done.result THEN "True" ELSE "False", None)
        /\ UNCHANGED <<multiplicity, instances, variables, current_instance,
                       configuration_history, modification_count,
                       document, parse_result, root_containers,
                       backend_vars>>

\* XDMProcessor.get_instance_count for a path of one part.
get_instance_count(container_path) ==
    LET found == get_container(Registry(containers, all_containers),
                               <<container_path>>)
    IN  IF found.kind = "registered"
        THEN InstanceCount(<<container_path>>, found.container)
        ELSE IF found.kind = "temporary"
        THEN found.container.instance_count
        ELSE 0

\* XDMProcessor.create_container_instance for a path of one part that
\* get_container does not find in all_containers.  A path of the flat map
\* gets a ConfigContainer made for the call: its first instance is created
\* with id 0, the ChangeRecord is written, and the container is dropped.
\* Any other path returns None.
XDM_create_container_instance_unregistered(container_path) ==
    LET found == get_container(Registry(containers, all_containers),
                               <<container_path>>)
    IN  /\ found.kind # "registered"
        /\ IF found.kind = "temporary"
           THEN /\ record_change("create_instance", container_path,
                                 [instance_id |-> 0])
                /\ last' = Call("create_container_instance", container_path,
                                "", "", None, None, "int", 0)
           ELSE /\ UNCHANGED <<configuration_history, modification_count>>
                /\ last' = Call("create_container_instance", container_path,
                                "", "", None, None, "None", None)
        /\ UNCHANGED <<multiplicity, instances, variables, current_instance,
                       document, parse_result, registry_vars, backend_vars>>

\* The elements a data model gains: containers and variable definitions,
\* named by their name attribute; some are of the canonical shape, some not.
XdmNames(tag) ==
    IF tag = "ctr" THEN {"LinChannel", "Custom"}
    ELSE {"LinIndex", "LinTimeoutDuration", "LinChannelId", "Speed"}

\* The default attribute written into an added variable definition.
XdmDefaultOf(name) == IF name \in DOMAIN Default THEN Default[name] ELSE ""

\* var_info['default'] of the variable the flat variable map holds under a
\* name: a later element of the same name overwrites an earlier one.
XdmDefault(file, var_name) ==
    LET found == {k \in 1..Len(file.nodes) :
                     /\ IsVariableTag(file.nodes[k].tag)
                     /\ file.nodes[k].attr_name = var_name}
    IN  file.nodes[CHOOSE k \in found : \A j \in found : j <= k].default

\* The data model gains one element before a processor is made from it: a
\* ctr or var under the root or under a ctr of the last branch, with a name
\* the document does not hold yet.
AddXdmElement(tag, parent, name) ==
    LET nodes == document.nodes
    IN  /\ last.op = ""
        /\ document.exists /\ document.well_formed
        /\ document.added < MaxElements
        /\ parent \in {Len(nodes)} \cup Ancestors(nodes, Len(nodes))
        /\ nodes[parent].tag \in {"datamodel", "ctr"}
        /\ tag \in {"ctr", "var"}
        /\ name \in XdmNames(tag)
        /\ \A j \in 1..Len(nodes) : nodes[j].attr_name # name
        /\ document' =
               [document EXCEPT
                   !.nodes = Append(nodes, Element(tag, parent, "", name,
                                                   XdmDefaultOf(name))),
                   !.added = @ + 1]
        /\ UNCHANGED <<multiplicity, instances, variables, current_instance,
                       configuration_history, modification_count, last,
                       parse_result, registry_vars, backend_vars>>

\* The keys of the root-level containers of the shape.
ShapeRoots == {<<n>> : n \in {m \in ShapeNames : ShapeParent[m] = ""}}

\* XDMProcessor.__init__ with the path of the document: when the file
\* exists, parse_xdm_file fills the flat maps (they stay empty when the text
\* is not well-formed) and initialize_configuration builds the containers of
\* the shape and gives each its default instance; when it does not exist,
\* nothing is built.
XDM_init ==
    /\ last.op = ""
    /\ IF document.exists
       THEN LET variables_data == XdmVariables(document)
                registry ==
                    create_default_instances(
                        create_containers_from_structure(
                            <<>>, variables_data, 1))
            IN  /\ containers' = {<<n>> : n \in XdmContainers(document)}
                /\ all_containers' = registry
                /\ root_containers' = ShapeRoots
                /\ instances' =
                       [c \in Containers |->
                           <<[id |-> 0, name |-> 0,
                              variables |->
                                  [v \in registry[<<c>>].variables |->
                                      XdmDefault(document, v)]]>>]
                /\ variables' =
                       [c \in Containers |->
                           [v \in registry[<<c>>].variables |->
                               <<XdmDefault(document, v)>>]]
       ELSE UNCHANGED <<registry_vars, instances, variables>>
    /\ last' = Call("__init__", "", "", "", None, None, "", None)
    /\ UNCHANGED <<multiplicity, current_instance, configuration_history,
                   modification_count, document, parse_result, backend_vars>>

\* ------------------------------------------------------------ VSCodeBackend
\* Nodes of a tree.
MaxNodes == 2

\* The 'type' of a node of a tree handed to _normalize_tree_structure: the
\* types the tree builders write, the synonyms of the table, and "" for a
\* node without the key.
NodeTypes ==
    {"folder", "leaf", "module", "package", "root", "container", "parameter",
     "variable", "element", "instance", ""}

\* node.get("type", "container")
TypeOf(node) == IF node.type = "" THEN "container" ELSE node.type

\* VSCodeBackend._normalize_node_type: type_mapping.get(node_type, "container")
normalize_node_type_PassThrough(node_type) ==
    CASE node_type \in {"folder", "leaf", "module", "package"} -> "container"
      [] node_type = "root" -> "root"
      [] node_type \in {"parameter", "variable"} -> "parameter"
      [] OTHER -> node_type

normalize_node_type(node_type) ==
    CASE node_type \in {"folder", "leaf", "module", "package"} -> "container"
      [] node_type = "root" -> "root"
      [] node_type \in {"parameter", "variable"} -> "parameter"
      [] OTHER -> "container"

\* VSCodeBackend._normalize_tree_structure on a tree of non-empty dicts, the
\* nodes in document order with the position of their parent: every node is
\* kept in its place with its type normalized.
normalize_tree_structure(nodes) ==
    [k \in 1..Len(nodes) |->
        [type |-> normalize_node_type(TypeOf(nodes[k])),
         parent |-> nodes[k].parent]]

\* The trees of at most MaxNodes nodes: each node after the first is a child
\* of an earlier one.
Trees ==
    UNION {{t \in [1..n -> [type : NodeTypes, parent : 0..(n - 1)]] :
               \A k \in 1..n : IF k = 1 THEN t[k].parent = 0
                               ELSE t[k].parent \in 1..(k - 1)} :
           n \in 1..MaxNodes}

\* No tree handed over yet.
NoTree == [node |-> <<>>, normalized |-> <<>>, done |-> FALSE]

\* One call of _normalize_tree_structure: the tree it was given, and the tree
\* it returned.
Backend_normalize_tree_structure ==
    /\ ~tree_structure.done
    /\ tree_structure' =
           [tree_structure EXCEPT
               !.normalized = normalize_tree_structure(tree_structure.node),
               !.done = TRUE]
    /\ UNCHANGED <<multiplicity, instances, variables, current_instance,
                   configuration_history, modification_count, last,
                   document, parse_result, registry_vars, process>>

\* The node paths without a '/' in the tree parse_file returns: the root tag
\* of a generic XML tree; the virtual root "" of the other trees and, in an
\* XDM tree, the containers by their names.
RootLevelPaths(file, kind) ==
    IF kind = "xml" THEN {file.nodes[1].tag}
    ELSE IF kind = "xdm" THEN {""} \cup XdmContainers(file)
    ELSE {""}

\* VSCodeBackend.get_node_details for a node path without a '/': the parse
\* result when it failed, else whether _find_node_by_path found the node.
get_node_details(file, kind, node_path) ==
    LET result == parse_file(file, kind)
    IN  IF ~result.success THEN FALSE
        ELSE node_path \in RootLevelPaths(file, kind)

\* The values of --node-path: "" when the option is absent or empty.
NodePaths == {"", "AUTOSAR", "Lin", "Missing"}

Commands == {"parse", "details", "validate"}

\* What a finished process leaves: the "success" member of the JSON object on
\* standard output, and the exit status.
Process(command, success, returncode) ==
    [ran |-> TRUE, command |-> command, success |-> success,
     returncode |-> returncode]

\* No process run yet.
NoProcess == [ran |-> FALSE, command |-> "", success |-> FALSE,
              returncode |-> 0]

\* cli_wrapper.main with --file given.  The result of parse and details is
\* printed and the process ends with status 0 whatever the result says;
\* validate calls backend.validate_file, which VSCodeBackend does not have:
\* the AttributeError is caught, an error object printed, and the process
\* exits with status 1.
CLI_main(command, kind, node_path) ==
    /\ process' =
           CASE command = "parse" ->
                    Process(command, parse_file(document, kind).success, 0)
             [] command = "details" ->
                    IF node_path = "" THEN Process(command, FALSE, 0)
                    ELSE Process(command,
                                 get_node_details(document, kind, node_path),
                                 0)
             [] command = "validate" -> Process(command, FALSE, 1)
    /\ UNCHANGED <<multiplicity, instances, variables, current_instance,
                   configuration_history, modification_count, last,
                   document, parse_result, registry_vars, tree_structure>>

\* ------------------------------------------------------- initial states
\* XDMProcessor.__init__ / initialize_configuration: every container of the
\* shape table with one default instance, an empty history.
InitConfiguration ==
    /\ multiplicity \in Multiplicities
    /\ instances =
           [c \in Containers |->
               <<[id |-> 0, name |-> 0, variables |-> DefaultSnapshot(c)]>>]
    /\ variables =
           [c \in Containers |->
               [v \in ContainerVariables[c] |-> <<Default[v]>>]]
    /\ current_instance = [c \in Containers |-> 0]
    /\ configuration_history = <<>>
    /\ modification_count = 0
    /\ last = Call("__init__", "", "", "", None, None, "", None)
    /\ containers = {<<n>> : n \in XdmContainers(LinDocument)}
    /\ all_containers =
           create_default_instances(
               create_containers_from_structure(
                   <<>>, XdmVariables(LinDocument), 1))
    /\ root_containers = ShapeRoots

\* No tree normalized and no command run yet.
InitBackend ==
    /\ tree_structure = NoTree
    /\ process = NoProcess

\* The processor made from LinDocument.
Init ==
    /\ InitConfiguration
    /\ document = LinDocument
    /\ parse_result = NoParse
    /\ InitBackend

\* That processor, and a file of any of the listed shapes for the parsers,
\* not parsed yet.
InitParse ==
    /\ InitConfiguration
    /\ document \in Files
    /\ parse_result = NoParse
    /\ InitBackend

\* A data model, and no processor made from it yet.
InitFile ==
    /\ multiplicity = [LinChannel |-> "*", LinGeneral |-> "1"]
    /\ instances = [c \in Containers |-> <<>>]
    /\ variables = [c \in Containers |-> <<>>]
    /\ current_instance = [c \in Containers |-> 0]
    /\ configuration_history = <<>>
    /\ modification_count = 0
    /\ last = Call("", "", "", "", None, None, "", None)
    /\ containers = {}
    /\ all_containers = <<>>
    /\ root_containers = {}
    /\ document \in XdmFiles
    /\ parse_result = NoParse
    /\ InitBackend

\* The processor made from LinDocument, and a tree for the backend to
\* normalize.
InitTree ==
    /\ InitConfiguration
    /\ document = LinDocument
    /\ parse_result = NoParse
    /\ process = NoProcess
    /\ tree_structure \in
           {[node |-> t, normalized |-> <<>>, done |-> FALSE] : t \in Trees}

\* Instance creation and deletion, directly and through the processor,
\* followed while the history has room.  Direct set_variable_value calls on
\* the first variable of an existing instance make the instances differ, so
\* that a deletion's effect on the remaining snapshots can be told apart.
Next ==
    \/ \E c \in Containers : HistoryRoom /\ Container_create_instance(c)
    \/ \E c \in Containers : \E i \in Ids(c) :
         HistoryRoom /\ Container_delete_instance(c, i)
    \/ \E c \in Containers : \E x \in Values :
         \E i \in 0..(Len(instances[c]) - 1) :
            HistoryRoom /\ Container_set_variable_value(
                               c, ContainerVariableList[c][1], x, i)
    \/ \E c \in Containers : HistoryRoom /\ XDM_create_container_instance(c)
    \/ \E c \in Containers : HistoryRoom /\ XDM_add_instance(c)
    \/ \E c \in Containers : \E i \in Ids(c) :
         HistoryRoom /\ XDM_delete_container_instance(c, i)
    \/ \E c \in Containers : \E i \in Ids(c) \cup {None} :
         HistoryRoom /\ XDM_delete_instance(c, i)

Spec == Init /\ [][Next]_vars

\* Variable values: direct create_instance / delete_instance calls,
\* set_variable_value directly and through the processor, and
\* reset_instance, followed while the history has room.
NextValues ==
    \/ \E c \in Containers : HistoryRoom /\ Container_create_instance(c)
    \/ \E c \in Containers : \E i \in Ids(c) :
         HistoryRoom /\ Container_delete_instance(c, i)
    \/ \E c \in Containers : \E v \in VarNames(c) : \E x \in Values :
         \E i \in Ids(c) \cup {None} :
            HistoryRoom /\ Container_set_variable_value(c, v, x, i)
    \/ \E c \in Containers : \E v \in VarNames(c) : \E x \in Values :
         \E i \in Ids(c) \cup {None} :
            HistoryRoom /\ XDM_set_variable_value(c, v, x, i)
    \/ \E c \in Containers : \E i \in Ids(c) \cup {None} :
         HistoryRoom /\ XDM_reset_instance(c, i)

SpecValues == Init /\ [][NextValues]_vars

\* copy_instance among direct create_instance / set_variable_value calls on
\* one container; the calls that leave the history alone go on after the copy.
CopyContainer == "LinChannel"

NextCopy ==
    \/ Container_create_instance(CopyContainer)
    \/ \E v \in VarNames(CopyContainer) : \E x \in Values :
         \E i \in Ids(CopyContainer) \cup {None} :
            Container_set_variable_value(CopyContainer, v, x, i)
    \/ \E s \in Ids(CopyContainer) : \E t \in Ids(CopyContainer) \cup {None} :
         XDM_copy_instance(CopyContainer, s, t)

SpecCopy == Init /\ [][NextCopy]_vars

\* switch_instance among direct create_instance / delete_instance calls and
\* set_current_instance, followed while the history has room.
NextSwitch ==
    \/ \E c \in Containers : HistoryRoom /\ Container_create_instance(c)
    \/ \E c \in Containers : \E i \in Ids(c) :
         HistoryRoom /\ Container_delete_instance(c, i)
    \/ \E c \in Containers : \E i \in Ids(c) :
         HistoryRoom /\ XDM_set_current_instance(c, i)
    \/ \E c \in Containers : \E i \in Ids(c) \cup {None} :
         HistoryRoom /\ XDM_switch_instance(c, i)

SpecSwitch == Init /\ [][NextSwitch]_vars

\* reset_to_defaults from the states that creation, deletion, direct writes
\* of the first variable and switch_instance reach; once the history is full
\* only the reset goes on.
NextReset ==
    \/ \E c \in Containers : HistoryRoom /\ Container_create_instance(c)
    \/ \E c \in Containers : \E i \in Ids(c) :
         HistoryRoom /\ Container_delete_instance(c, i)
    \/ \E c \in Containers : \E x \in Values :
         \E i \in 0..(Len(instances[c]) - 1) :
            HistoryRoom /\ Container_set_variable_value(
                               c, ContainerVariableList[c][1], x, i)
    \/ \E c \in Containers : \E i \in Ids(c) \cup {None} :
         HistoryRoom /\ XDM_switch_instance(c, i)
    \/ XDM_reset_to_defaults

SpecReset == Init /\ [][NextReset]_vars

\* Variable names a caller passes to reset_variable.
AllVarNames == UNION {VarNames(c) : c \in Containers}

\* The processor operations that write the current instance or variable
\* values, with and without a ChangeRecord, among direct create_instance
\* calls; followed while the history has room.
NextHistory ==
    \/ \E c \in Containers : HistoryRoom /\ Container_create_instance(c)
    \/ \E c \in Containers : \E i \in Ids(c) :
         HistoryRoom /\ XDM_set_current_instance(c, i)
    \/ \E c \in Containers : \E i \in Ids(c) \cup {None} :
         HistoryRoom /\ XDM_switch_instance(c, i)
    \/ \E c \in Containers : \E v \in VarNames(c) : \E x \in Values :
         \E i \in Ids(c) \cup {None} :
            HistoryRoom /\ XDM_set_variable_value(c, v, x, i)
    \/ \E c \in Containers : HistoryRoom /\ XDM_reset_container(c)
    \/ \E v \in AllVarNames : HistoryRoom /\ XDM_reset_variable(v)

SpecHistory == Init /\ [][NextHistory]_vars

\* The operations that write instances, value lists and the current
\* instance, in any order on one container: direct create_instance / delete_instance calls,
\* direct writes of the first variable, and the processor's copy, reset and
\* switch operations.  reset_to_defaults empties the history, after which
\* the recording operations go on.
NextStores ==
    \/ Container_create_instance(CopyContainer)
    \/ \E i \in Ids(CopyContainer) :
         Container_delete_instance(CopyContainer, i)
    \/ \E x \in Values : \E i \in 0..(Len(instances[CopyContainer]) - 1) :
         Container_set_variable_value(
             CopyContainer, ContainerVariableList[CopyContainer][1], x, i)
    \/ \E s \in Ids(CopyContainer) : \E t \in Ids(CopyContainer) \cup {None} :
         XDM_copy_instance(CopyContainer, s, t)
    \/ \E i \in Ids(CopyContainer) \cup {None} :
         XDM_reset_instance(CopyContainer, i)
    \/ \E i \in Ids(CopyContainer) \cup {None} :
         XDM_switch_instance(CopyContainer, i)
    \/ \E i \in Ids(CopyContainer) :
         XDM_set_current_instance(CopyContainer, i)
    \/ XDM_reset_container(CopyContainer)
    \/ XDM_reset_to_defaults

SpecStores == Init /\ [][NextStores]_vars

\* add_container_instance and remove_container_instance among direct
\* create_instance calls and direct writes of the first variable, on one
\* container.
NextInstanceList ==
    \/ Container_create_instance(CopyContainer)
    \/ \E x \in Values : \E i \in 0..(Len(instances[CopyContainer]) - 1) :
         Container_set_variable_value(
             CopyContainer, ContainerVariableList[CopyContainer][1], x, i)
    \/ \E instance_data \in InstanceData(CopyContainer) :
         XDM_add_container_instance(CopyContainer, instance_data)
    \/ \E i \in Ids(CopyContainer) :
         XDM_remove_container_instance(CopyContainer, i)

SpecInstanceList == Init /\ [][NextInstanceList]_vars

\* A file of any listed shape grows element by element and is then parsed:
\* by the generic walker, by ARXMLProcessor under every outcome of the typed
\* parse, and by the backend under every file kind.
NextParse ==
    \/ \E tag \in NamedTags \cup {"PARAMETERS", "SUB-CONTAINERS"} :
         \E parent \in 1..Len(document.nodes) : \E name \in Names \cup {""} :
            AddElement(tag, parent, name)
    \/ XML_extract_structure
    \/ \E is_bswmd \in BOOLEAN : \E typed \in TypedOutcomes(document) :
         \E extracted \in Extractions :
            ARXML_parse_arxml_file(is_bswmd, typed, extracted)
    \/ \E kind \in FileKinds : Backend_parse_file(kind)

SpecParse == InitParse /\ [][NextParse]_vars

\* A data model grows element by element, and a processor is made from it.
NextInit ==
    \/ \E tag \in {"ctr", "var"} : \E parent \in 1..Len(document.nodes) :
         \E name \in XdmNames(tag) : AddXdmElement(tag, parent, name)
    \/ XDM_init

SpecInit == InitFile /\ [][NextInit]_vars

\* Parts of a container path.
MaxPath == 3

\* The paths a caller passes to the registry operations: containers of the
\* shape, the container only the flat map holds, the targets of the copies,
\* and a path nothing is known under.
TargetPaths == {<<"Copy2">>, <<"LinGlobalConfig", "Copy">>}

SourcePaths ==
    {<<"LinChannel">>, <<"LinGlobalConfig">>, <<"Custom">>, <<"Nope">>}
        \cup TargetPaths

DeletePaths ==
    SourcePaths \cup {<<"Lin">>, <<"LinGeneral">>, <<"Copy2", "Copy">>}

\* path is source_path or lies below it.
IsPrefix(source_path, path) ==
    /\ Len(source_path) <= Len(path)
    /\ SubSeq(path, 1, Len(source_path)) = source_path

\* create_sub_container, duplicate_container and delete_container on the
\* processor made from LinDocument.  A copy with copy_children is followed
\* when its target is not below its source, and while no registered path
\* grows beyond MaxPath parts.
NextRegistry ==
    \/ \E parent_path \in SourcePaths :
         XDM_create_sub_container(parent_path, "Sub")
    \/ \E source_path \in SourcePaths : \E target_path \in TargetPaths :
         \E copy_options \in CopyOptions :
            /\ copy_options.copy_children => ~IsPrefix(source_path, target_path)
            /\ XDM_duplicate_container(source_path, target_path, copy_options)
            /\ \A key \in DOMAIN all_containers' : Len(key) <= MaxPath
    \/ \E container_path \in DeletePaths : XDM_delete_container(container_path)

SpecRegistry == Init /\ [][NextRegistry]_vars

\* The paths a caller passes to create_container_instance: a container of the
\* shape, the container only the flat map holds, and an unknown one.
LookupPaths == {CopyContainer, "Custom", "Nope"}

\* create_container_instance by path, among direct create_instance /
\* set_variable_value calls on the registered container.  Calls on a path
\* outside all_containers are followed while the history holds at most
\* MaxHistory records.
NextLookup ==
    \/ Container_create_instance(CopyContainer)
    \/ \E x \in Values : \E i \in 0..(Len(instances[CopyContainer]) - 1) :
         Container_set_variable_value(
             CopyContainer, ContainerVariableList[CopyContainer][1], x, i)
    \/ XDM_create_container_instance(CopyContainer)
    \/ \E container_path \in LookupPaths \ {CopyContainer} :
         /\ Len(configuration_history) <= MaxHistory
         /\ XDM_create_container_instance_unregistered(container_path)

SpecLookup == Init /\ [][NextLookup]_vars

\* A tree is normalized.
NextTree == Backend_normalize_tree_structure

SpecTree == InitTree /\ [][NextTree]_vars

\* A file of any listed shape grows element by element; the command line is
\* run on it under every command, file kind and --node-path.
NextCli ==
    \/ \E tag \in NamedTags \cup {"PARAMETERS", "SUB-CONTAINERS"} :
         \E parent \in 1..Len(document.nodes) : \E name \in Names \cup {""} :
            AddElement(tag, parent, name)
    \/ \E command \in Commands : \E kind \in FileKinds :
         \E node_path \in NodePaths : CLI_main(command, kind, node_path)

SpecCli == InitParse /\ [][NextCli]_vars

\* ------------------------------------------------------------- properties
CreateOps ==
    {"ConfigContainer.create_instance", "create_container_instance",
     "add_instance"}

DeleteOps ==
    {"ConfigContainer.delete_instance", "delete_container_instance",
     "delete_instance"}

SetOps == {"ConfigContainer.set_variable_value", "set_variable_value"}

\* The instance id a call addresses: the one given, or the current instance.
Addressed(c, instance_id) ==
    IF instance_id = None THEN current_instance[c] ELSE instance_id

\* The id is one of the container's instance ids 0 .. count-1.
Existing(c, instance_id) ==
    0 <= instance_id /\ instance_id < Len(instances[c])

\* The container is at its numeric multiplicity bound.
AtBound(c) ==
    multiplicity[c] # "*" /\ Len(instances[c]) >= IntOf(multiplicity[c])

\* Instances, value lists, current instances and change log stay as they are.
ModelUnchanged ==
    UNCHANGED <<instances, variables, current_instance,
                configuration_history, modification_count>>

\* C1: after any sequence of create_instance / delete_instance calls, made
\* directly or through the processor, the ids of a container's instances
\* read in list order are 0, 1, ..., count-1.
C1_DenseIds ==
    \A c \in Containers :
        \A k \in 1..Len(instances[c]) : instances[c][k].id = k - 1

\* Instance 0 of a container was deleted and two instances remain.
C1_Witness ==
    \E c \in Containers :
        /\ last.op \in DeleteOps /\ last.container_path = c
        /\ last.result = "True" /\ last.instance_id = 0
        /\ Len(instances[c]) = 2

\* How each creating call reports InstanceLimitExceeded.
LimitReport(op) ==
    CASE op = "ConfigContainer.create_instance" -> "ValueError"
      [] op = "create_container_instance" -> "None"
      [] op = "add_instance" -> "False"

\* C2: a creating call on a container at its numeric multiplicity bound
\* reports InstanceLimitExceeded (ValueError from the container, no id from
\* create_container_instance, false from add_instance) and changes neither
\* the instances, the value lists, the current instance nor the change log.
C2_CreateAtBound ==
    [][\A c \in Containers :
          (last'.op \in CreateOps /\ last'.container_path = c /\ AtBound(c))
          => (last'.result = LimitReport(last'.op) /\ ModelUnchanged)]_vars

\* add_instance has failed on a container of multiplicity "2" holding two
\* instances.
C2_Witness ==
    \E c \in Containers :
        /\ last.op = "add_instance" /\ last.container_path = c
        /\ last.result = "False"
        /\ multiplicity[c] = "2" /\ Len(instances[c]) = 2

\* C3: a creating call on a container holding k instances, of multiplicity
\* "*" or a numeric N > k, succeeds and returns the id k; the new instance is
\* the last one, has id k and holds every variable at its default; the
\* earlier instances stay. (With multiplicity "2" and no instance: ids 0,
\* then 1; the third call is C2's case.)
C3_CreateBelowBound ==
    [][\A c \in Containers :
          (last'.op \in CreateOps /\ last'.container_path = c /\ ~AtBound(c))
          => LET k == Len(instances[c])
             IN  /\ last'.result =
                        (IF last'.op = "add_instance" THEN "True" ELSE "int")
                 /\ last'.op # "add_instance" => last'.ret = k
                 /\ Len(instances'[c]) = k + 1
                 /\ instances'[c][k + 1].id = k
                 /\ instances'[c][k + 1].variables =
                        [v \in ContainerVariables[c] |-> Default[v]]
                 /\ \A j \in 1..k : instances'[c][j] = instances[c][j]]_vars

\* The second instance of a multiplicity-"2" container was created, with id 1.
C3_Witness ==
    \E c \in Containers :
        /\ last.op = "create_container_instance" /\ last.container_path = c
        /\ last.result = "int" /\ last.ret = 1
        /\ multiplicity[c] = "2" /\ Len(instances[c]) = 2

\* C4: deleting an existing instance id of a container with n instances
\* leaves n-1 instances: the former ones other than id, in their order, each
\* with the variable values it had, numbered 0 .. n-2.
C4_DeleteKeepsOthers ==
    [][\A c \in Containers :
          (/\ last'.op \in DeleteOps /\ last'.container_path = c
           /\ Existing(c, Addressed(c, last'.instance_id)))
          => LET id == Addressed(c, last'.instance_id)
                 n == Len(instances[c])
             IN  /\ last'.result = "True"
                 /\ Len(instances'[c]) = n - 1
                 /\ \A j \in 1..(n - 1) :
                       /\ instances'[c][j].id = j - 1
                       /\ instances'[c][j].variables =
                              instances[c][IF j <= id THEN j ELSE j + 1]
                                  .variables]_vars

\* Instance 0 of a three-instance container was deleted; the two survivors
\* hold different values.
C4_Witness ==
    \E c \in Containers :
        /\ last.op \in DeleteOps /\ last.container_path = c
        /\ last.result = "True" /\ last.instance_id = 0
        /\ Len(instances[c]) = 2
        /\ instances[c][1].variables # instances[c][2].variables

\* C5: a deleting call with an id outside 0 .. count-1 returns false (it does
\* not raise) and changes neither the instances, the value lists, the
\* current instance nor the change log.
C5_DeleteOutOfRange ==
    [][\A c \in Containers :
          (/\ last'.op \in DeleteOps /\ last'.container_path = c
           /\ ~Existing(c, Addressed(c, last'.instance_id)))
          => (last'.result = "False" /\ ModelUnchanged)]_vars

\* delete_container_instance was called with a negative id on a container
\* that has instances, and returned false.
C5_Witness ==
    \E c \in Containers :
        /\ last.op = "delete_container_instance" /\ last.container_path = c
        /\ last.result = "False"
        /\ last.instance_id < 0
        /\ Len(instances[c]) >= 1

\* C6: reset_instance on an existing instance (the given id, or the current
\* instance when the id is omitted) puts every variable of that instance at
\* its definition's default, in the snapshot and in the value lists, and
\* changes no other instance of the container and no other container.
C6_ResetOnlyThatInstance ==
    [][\A c \in Containers :
          (/\ last'.op = "reset_instance" /\ last'.container_path = c
           /\ Existing(c, Addressed(c, last'.instance_id)))
          => LET id == Addressed(c, last'.instance_id)
                 n == Len(instances[c])
             IN  /\ last'.result = "True"
                 /\ Len(instances'[c]) = n
                 /\ instances'[c][id + 1].variables =
                        [v \in ContainerVariables[c] |-> Default[v]]
                 /\ \A j \in 1..n :
                       j # id + 1 => instances'[c][j] = instances[c][j]
                 /\ \A v \in ContainerVariables[c] :
                       /\ variables'[c][v][id + 1] = Default[v]
                       /\ \A j \in 1..Len(variables[c][v]) :
                             j # id + 1 =>
                                 variables'[c][v][j] = variables[c][v][j]
                 /\ \A d \in Containers \ {c} :
                       /\ instances'[d] = instances[d]
                       /\ variables'[d] = variables[d]]_vars

\* Instance 1 of a container was reset while instance 0 is current and holds
\* values off the defaults, as does the other container.
C6_Witness ==
    \E c \in Containers :
        /\ last.op = "reset_instance" /\ last.container_path = c
        /\ last.result = "True" /\ last.instance_id = 1
        /\ current_instance[c] = 0
        /\ instances[c][1].variables # DefaultSnapshot(c)
        /\ instances[c][2].variables = DefaultSnapshot(c)
        /\ \E d \in Containers \ {c} :
              /\ Len(instances[d]) >= 1
              /\ instances[d][1].variables # DefaultSnapshot(d)

\* The step is a copy_instance call on c.
CopyCall(c) == last'.op = "copy_instance" /\ last'.container_path = c

\* copy_instance with source and target both existing: the target's values
\* become the source's, the other instances stay.
CopyOntoExisting(c) ==
    (/\ CopyCall(c) /\ Existing(c, last'.instance_id)
     /\ last'.target # None /\ Existing(c, last'.target))
    => LET src == last'.instance_id
           dst == last'.target
       IN  /\ last'.result = "True"
           /\ Len(instances'[c]) = Len(instances[c])
           /\ instances'[c][dst + 1].variables = instances[c][src + 1].variables
           /\ \A j \in 1..Len(instances[c]) :
                 j # dst + 1 => instances'[c][j] = instances[c][j]

\* copy_instance with the target omitted has created one instance, the last,
\* holding the source's values.
CopiedToNew(c) ==
    LET src == last'.instance_id
        n == Len(instances[c])
    IN  /\ last'.result = "True"
        /\ last'.ret = n
        /\ Len(instances'[c]) = n + 1
        /\ instances'[c][n + 1].variables = instances[c][src + 1].variables
        /\ \A j \in 1..n : instances'[c][j] = instances[c][j]

\* A successful set_variable_value on the source of an earlier copy leaves
\* the target of that copy as it is.
SetAfterCopy(c) ==
    \A k \in 1..Len(configuration_history) :
        LET rec == configuration_history[k]
        IN  (/\ rec.action = "copy_instance" /\ rec.container_path = c
             /\ rec.details.target_instance >= 0
             /\ rec.details.target_instance # rec.details.source_instance
             /\ last'.op \in SetOps /\ last'.container_path = c
             /\ last'.result = "True"
             /\ (last'.instance_id = None \/ last'.instance_id >= 0)
             /\ Addressed(c, last'.instance_id) = rec.details.source_instance)
            => instances'[c][rec.details.target_instance + 1] =
                   instances[c][rec.details.target_instance + 1]

\* C7 as claimed: copy_instance with src and dst in range makes dst's values
\* equal src's, a later set_variable_value on src leaves dst unchanged, and
\* with dst omitted exactly one new instance is created and receives the copy.
C7_CopyAsClaimed ==
    [][\A c \in Containers :
          /\ CopyOntoExisting(c)
          /\ SetAfterCopy(c)
          /\ (CopyCall(c) /\ Existing(c, last'.instance_id)
              /\ last'.target = None) => CopiedToNew(c)]_vars

\* C7: copy_instance with src and dst in range makes dst's values equal
\* src's, a later set_variable_value on src leaves dst unchanged; with dst
\* omitted on a container below its multiplicity bound exactly one new
\* instance is created and receives the copy; with dst omitted on a container
\* at its numeric multiplicity bound the call raises the ValueError of
\* create_instance and changes nothing.
C7_CopyIndependent ==
    [][\A c \in Containers :
          /\ CopyOntoExisting(c)
          /\ SetAfterCopy(c)
          /\ (CopyCall(c) /\ Existing(c, last'.instance_id)
              /\ last'.target = None)
             => IF AtBound(c)
                THEN last'.result = "ValueError" /\ ModelUnchanged
                ELSE CopiedToNew(c)]_vars

\* After a copy of instance s onto another instance t, a set_variable_value
\* on s has succeeded: t still holds the copied values, off the defaults, and
\* s no longer does.
C7_Witness ==
    \E c \in Containers :
        /\ last.op \in SetOps /\ last.container_path = c
        /\ last.result = "True"
        /\ Len(configuration_history) = 1
        /\ LET rec == configuration_history[1]
               t == rec.details.target_instance
               s == rec.details.source_instance
           IN  /\ rec.action = "copy_instance"
               /\ t >= 0 /\ t # s
               /\ last.instance_id = s
               /\ instances[c][t + 1].variables # DefaultSnapshot(c)
               /\ instances[c][t + 1].variables # instances[c][s + 1].variables

\* C8 as claimed: copy_instance with src outside 0 .. count-1, or with a
\* given dst outside 0 .. count-1, returns false, changes no instance and no
\* value list, creates no instance and appends no ChangeRecord.
C8_CopyOutOfRange ==
    [][\A c \in Containers :
          (/\ CopyCall(c)
           /\ \/ ~Existing(c, last'.instance_id)
              \/ last'.target # None /\ ~Existing(c, last'.target))
          => (last'.result = "False" /\ ModelUnchanged)]_vars

\* C9 as claimed: set_variable_value returns false and changes nothing when
\* the variable is not one of the container's or the addressed instance (the
\* given id, the current instance when omitted) is not in 0 .. count-1.
C9_SetUnknown ==
    [][\A c \in Containers :
          (/\ last'.op \in SetOps /\ last'.container_path = c
           /\ \/ last'.var_name \notin ContainerVariables[c]
              \/ ~Existing(c, Addressed(c, last'.instance_id)))
          => (last'.result = "False" /\ ModelUnchanged)]_vars

\* C10: a successful set_variable_value(name, value, id) writes value as the
\* value of name in one instance, the given one (the current one when the id
\* is omitted): get_variable_value with the same id then returns value, and
\* every other variable and every other instance, of this and of the other
\* containers, keeps its value.
C10_SetWritesOneValue ==
    [][\A c \in Containers :
          (/\ last'.op \in SetOps /\ last'.container_path = c
           /\ last'.result = "True")
          => LET a == last'.instance_id
                 name == last'.var_name
                 n == Len(instances[c])
             IN  /\ Len(instances'[c]) = n
                 /\ current_instance' = current_instance
                 /\ \E t \in 1..n :
                       /\ a = None => t = current_instance[c] + 1
                       /\ (a # None /\ a >= 0) => t = a + 1
                       /\ instances'[c][t].variables[name] = last'.value
                       /\ \A j \in 1..n : \A v \in ContainerVariables[c] :
                             /\ instances'[c][j].id = instances[c][j].id
                             /\ (j # t \/ v # name) =>
                                   instances'[c][j].variables[v] =
                                       instances[c][j].variables[v]
                       /\ (a = None \/ a >= 0) =>
                             /\ variables'[c][name][t] = last'.value
                             /\ \A v \in ContainerVariables[c] :
                                   \A j \in 1..Len(variables[c][v]) :
                                      (j # t \/ v # name) =>
                                          variables'[c][v][j] =
                                              variables[c][v][j]
                 /\ get_variable_value(c,
                        [instances |-> instances'[c],
                         variables |-> variables'[c],
                         current_instance |-> current_instance'[c]],
                        name, a) = [result |-> "value", val |-> last'.value]
                 /\ \A d \in Containers \ {c} :
                       /\ instances'[d] = instances[d]
                       /\ variables'[d] = variables[d]]_vars

\* The processor's set_variable_value has written, in instance 1 of a
\* container whose current instance is 0, a value that instance 0 does not
\* hold, leaving the other variable of instance 1 off that value.
C10_Witness ==
    \E c \in Containers :
        /\ last.op = "set_variable_value" /\ last.container_path = c
        /\ last.result = "True" /\ last.instance_id = 1
        /\ current_instance[c] = 0
        /\ Len(instances[c]) >= 2
        /\ instances[c][2].variables[last.var_name] = last.value
        /\ instances[c][1].variables[last.var_name] # last.value
        /\ \E v \in ContainerVariables[c] :
              instances[c][2].variables[v] # last.value

\* The instances and the value lists of every container stay as they are.
ValuesUnchanged == UNCHANGED <<instances, variables>>

\* C11: switch_instance on a container with at least one instance returns
\* true and makes the given id the current instance when 0 <= id < count, and
\* makes (current + 1) mod count the current instance when the id is omitted;
\* no instance and no variable value changes, and no other container's
\* current instance changes.
C11_SwitchSetsCurrent ==
    [][\A c \in Containers :
          (/\ last'.op = "switch_instance" /\ last'.container_path = c
           /\ Len(instances[c]) >= 1
           /\ \/ last'.instance_id = None
              \/ Existing(c, last'.instance_id))
          => /\ last'.result = "True"
             /\ current_instance'[c] =
                    IF last'.instance_id = None
                    THEN (current_instance[c] + 1) % Len(instances[c])
                    ELSE last'.instance_id
             /\ \A d \in Containers \ {c} :
                    current_instance'[d] = current_instance[d]
             /\ ValuesUnchanged]_vars

\* switch_instance without an id wrapped from the last of three instances to
\* instance 0.
C11_Witness ==
    \E c \in Containers :
        /\ last.op = "switch_instance" /\ last.container_path = c
        /\ last.instance_id = None /\ last.result = "True"
        /\ Len(instances[c]) = 3
        /\ current_instance[c] = 0
        /\ configuration_history[Len(configuration_history)]
               .details.old_instance = 2

\* C12: switch_instance returns false (it does not raise) and leaves the
\* current instance and the change log unchanged when the given id is outside
\* 0 .. count-1, and when the id is omitted on a container without instances.
C12_SwitchFails ==
    [][\A c \in Containers :
          (/\ last'.op = "switch_instance" /\ last'.container_path = c
           /\ \/ last'.instance_id # None /\ ~Existing(c, last'.instance_id)
              \/ last'.instance_id = None /\ Len(instances[c]) = 0)
          => (last'.result = "False" /\ ModelUnchanged)]_vars

\* C13: after reset_to_defaults every container has exactly one instance,
\* with id 0, the current instance is 0, every variable of that instance
\* holds its definition's default (in the snapshot, and as get_variable_value
\* reads it), the change log is empty and the modification count is 0.
C13_ResetToDefaults ==
    [][last'.op = "reset_to_defaults"
          => /\ \A c \in Containers :
                    /\ Len(instances'[c]) = 1
                    /\ instances'[c][1].id = 0
                    /\ current_instance'[c] = 0
                    /\ \A v \in ContainerVariables[c] :
                           /\ instances'[c][1].variables[v] = Default[v]
                           /\ get_variable_value(
                                  c,
                                  [instances |-> instances'[c],
                                   variables |-> variables'[c],
                                   current_instance |-> current_instance'[c]],
                                  v, None)
                                = [result |-> "value", val |-> Default[v]]
             /\ configuration_history' = <<>>
             /\ modification_count' = 0]_vars

\* reset_to_defaults has run on a processor whose LinChannel had several
\* instances: one instance is left, and the 'values' list of LinChannelId
\* still has the length it had.
C13_Witness ==
    /\ last.op = "reset_to_defaults"
    /\ configuration_history = <<>>
    /\ Len(instances["LinChannel"]) = 1
    /\ Len(variables["LinChannel"]["LinChannelId"]) > 1

\* The processor operations of the change-history specification.
ProcessorOps ==
    {"set_current_instance", "switch_instance", "set_variable_value",
     "reset_container", "reset_variable"}

\* C14: every processor operation that succeeds and changes the instances,
\* the variable values or the current instance of a container appends
\* exactly one ChangeRecord to the change history.
C14_OneRecordPerMutation ==
    [][(/\ last'.op \in ProcessorOps
        /\ last'.result = "True"
        /\ <<instances, variables, current_instance>>'
             # <<instances, variables, current_instance>>)
          => /\ Len(configuration_history') = Len(configuration_history) + 1
             /\ modification_count' = modification_count + 1]_vars

\* The instance a set_variable_value call addresses: the given id, or the
\* current instance when the id is omitted.
GivenOrCurrent(c, instance_id) ==
    IF instance_id = None THEN current_instance[c] ELSE instance_id

\* C15: the ChangeRecord appended by a successful processor
\* set_variable_value names the variable, the value the addressed instance
\* held before the call, the new value, and the id of the addressed instance:
\* the given id (0 included, whatever the current instance is) or the current
\* instance when the id is omitted.
C15_RecordNamesInstance ==
    [][\A c \in Containers :
          (/\ last'.op = "set_variable_value" /\ last'.container_path = c
           /\ last'.result = "True"
           /\ Existing(c, GivenOrCurrent(c, last'.instance_id)))
          => /\ Len(configuration_history') = Len(configuration_history) + 1
             /\ LET rec == configuration_history'[Len(configuration_history')]
                    id == GivenOrCurrent(c, last'.instance_id)
                IN  /\ rec.action = "modify_variable"
                    /\ rec.container_path = c
                    /\ rec.details.variable = last'.var_name
                    /\ rec.details.new_value = last'.value
                    /\ rec.details.old_value =
                           instances[c][id + 1].variables[last'.var_name]
                    /\ rec.details.instance_id = id]_vars

\* The schema-aware extraction of the last parse_arxml_file call completed
\* and left no container and no parameter.
ExtractedNothing ==
    /\ parse_result.op = "parse_arxml_file"
    /\ parse_result.typed = "object"
    /\ parse_result.extracted = "none"

\* C16: when the schema-aware extraction of parse_arxml_file completes with
\* no container and no parameter, the containers and parameters the caller
\* reads afterwards are the maps extract_structure gives for the same file,
\* and when those are empty too the call reports failure.
C16_FallbackIsWalker ==
    ExtractedNothing =>
        LET structure == extract_structure(document.nodes, parse(document))
        IN  /\ parse_result.containers = structure.containers
            /\ parse_result.parameters = structure.parameters
            /\ (structure.containers = <<>> /\ structure.parameters = <<>>)
                   => ~parse_result.success

\* The schema-aware path of the last parse_arxml_file call failed: the typed
\* parse raised or returned nothing, or the extraction left nothing.
SchemaAwareFailed ==
    /\ parse_result.op = "parse_arxml_file"
    /\ \/ parse_result.typed \in {"raises", "empty"}
       \/ ExtractedNothing

\* C17: when the schema-aware path of parse_arxml_file fails, the generic
\* walker is run before the call returns, and the call reports failure only
\* when the walker gets no usable root from the file.
C17_FailureFallsBack ==
    SchemaAwareFailed =>
        /\ parse_result.walker_ran
        /\ ~parse_result.success => RootIsFalse(document, parse(document))

\* C18: parse_file on a file whose text is not well-formed XML reports
\* failure for every file kind, and the tree it returns has no children and
\* no parameters.
C18_BrokenFileFails ==
    (/\ parse_result.op = "parse_file"
     /\ document.exists
     /\ ~document.well_formed) =>
        /\ ~parse_result.success
        /\ parse_result.children = 0
        /\ parse_result.tree_parameters = 0

\* The elements of the document with the given tag.
WithTag(tag) ==
    {j \in 1..Len(document.nodes) : document.nodes[j].tag = tag}

\* The document holds one module definition with one container definition
\* whose PARAMETERS list holds an integer parameter definition with default
\* "5" and a boolean one with default "true", and nothing else.
ScenarioA ==
    /\ document.exists /\ document.well_formed
    /\ Cardinality(WithTag("ECUC-MODULE-DEF")) = 1
    /\ Cardinality(WithTag("ECUC-PARAM-CONF-CONTAINER-DEF")) = 1
    /\ Cardinality(WithTag("PARAMETERS")) = 1
    /\ WithTag("SUB-CONTAINERS") = {}
    /\ Cardinality(WithTag("ECUC-INTEGER-PARAM-DEF")) = 1
    /\ Cardinality(WithTag("ECUC-BOOLEAN-PARAM-DEF")) = 1
    /\ \A j \in WithTag("ECUC-INTEGER-PARAM-DEF") :
           document.nodes[j].default = "5"
    /\ \A j \in WithTag("ECUC-BOOLEAN-PARAM-DEF") :
           document.nodes[j].default = "true"

\* C19: for a document with one module definition, one container definition
\* and two parameter definitions in it (an integer one with default "5", a
\* boolean one with default "true"), extract_structure gives a container map
\* of exactly two entries, the module and the container, and a parameter
\* map of exactly two entries, whose types are INTEGER and BOOLEAN and whose
\* defaults are "5" and "true".
C19_ScenarioA ==
    (parse_result.op = "extract_structure" /\ ScenarioA) =>
        LET module == CHOOSE j \in WithTag("ECUC-MODULE-DEF") : TRUE
            container ==
                CHOOSE j \in WithTag("ECUC-PARAM-CONF-CONTAINER-DEF") : TRUE
            integer == CHOOSE j \in WithTag("ECUC-INTEGER-PARAM-DEF") : TRUE
            boolean == CHOOSE j \in WithTag("ECUC-BOOLEAN-PARAM-DEF") : TRUE
            module_path == <<document.nodes[module].name>>
            container_path ==
                Append(module_path, document.nodes[container].name)
            integer_path ==
                Append(container_path, document.nodes[integer].name)
            boolean_path ==
                Append(container_path, document.nodes[boolean].name)
        IN  /\ DOMAIN parse_result.containers = {module_path, container_path}
            /\ Cardinality(DOMAIN parse_result.containers) = 2
            /\ parse_result.containers[module_path].type = "module_definition"
            /\ parse_result.containers[container_path].type =
                   "container_definition"
            /\ DOMAIN parse_result.parameters = {integer_path, boolean_path}
            /\ Cardinality(DOMAIN parse_result.parameters) = 2
            /\ parse_result.parameters[integer_path].type = "INTEGER"
            /\ parse_result.parameters[integer_path].default = "5"
            /\ parse_result.parameters[boolean_path].type = "BOOLEAN"
            /\ parse_result.parameters[boolean_path].default = "true"

\* The walker has run on a document of that shape.
C19_Witness ==
    /\ parse_result.op = "extract_structure"
    /\ ScenarioA
    /\ Cardinality(DOMAIN parse_result.parameters) = 2

\* C20: in the maps extract_structure builds, two distinct container
\* definitions never land on one container path and two distinct parameter
\* definitions never land on one parameter path.
C20_PathsUnique ==
    parse_result.op = "extract_structure" =>
        LET regs == Registrations(document.nodes, parse(document))
        IN  \A j, k \in 1..Len(regs) :
                (regs[j].kind = regs[k].kind /\ regs[j].path = regs[k].path)
                    => regs[j].element = regs[k].element

\* C23: for every container and every variable of it, the variable's value
\* list is at least as long as the container's instance list.
C23_ValuesCoverInstances ==
    \A c \in Containers : \A v \in ContainerVariables[c] :
        Len(variables[c][v]) >= Len(instances[c])

\* A copy without a target has created the third instance of LinChannel and
\* its value lists have grown with it.
C23_Witness ==
    /\ last.op = "copy_instance"
    /\ last.result = "True"
    /\ last.target = None
    /\ Len(instances["LinChannel"]) = 3
    /\ Len(variables["LinChannel"]["LinChannelBaudRate"]) = 3

\* C28: a container with instances has 0 <= current_instance < count, and a
\* container without instances has current_instance = 0.
C28_CurrentInRange ==
    \A c \in Containers :
        IF Len(instances[c]) = 0 THEN current_instance[c] = 0
        ELSE 0 <= current_instance[c] /\ current_instance[c] < Len(instances[c])

\* The last of three instances has been deleted and the current instance is
\* the last of the two that remain.
C28_Witness ==
    /\ last.op \in DeleteOps
    /\ last.result = "True"
    /\ last.instance_id = 2
    /\ Len(instances[last.container_path]) = 2
    /\ current_instance[last.container_path] = 1

\* C29: for every container, variable and instance index below the count,
\* the entry of the variable's value list at that index is the variable's
\* value in that instance's snapshot.
C29_StoresAgree ==
    \A c \in Containers : \A v \in ContainerVariables[c] :
        \A i \in 1..Len(instances[c]) :
            /\ i <= Len(variables[c][v])
            /\ variables[c][v][i] = instances[c][i].variables[v]

\* The names from the module definition down to the element at position j:
\* the SHORT-NAMEs of the module and container definitions that enclose it,
\* then its own.
RECURSIVE EnclosingPath(_, _)
EnclosingPath(nodes, j) ==
    LET above == IF nodes[j].parent = 0 THEN <<>>
                 ELSE EnclosingPath(nodes, nodes[j].parent)
    IN  IF nodes[j].tag \in NamedTags \cup {"ECUC-MODULE-DEF"}
        THEN Append(above, nodes[j].name)
        ELSE above

\* C26: in the maps extract_structure builds, every container definition is
\* written under one path only, the module name followed by the names of
\* its enclosing container definitions and its own, and every parameter
\* definition is written only under the path of the container definition
\* whose PARAMETERS element holds it.
C26_OneEntryPerElement ==
    parse_result.op = "extract_structure" =>
        LET nodes == document.nodes
            regs == Registrations(nodes, parse(document))
        IN  /\ \A k \in 1..Len(regs) :
                   regs[k].path = EnclosingPath(nodes, regs[k].element)
            /\ \A j \in WithTag("ECUC-PARAM-CONF-CONTAINER-DEF") :
                   \E k \in 1..Len(regs) : regs[k].element = j

\* C24: after a successful add_container_instance or
\* remove_container_instance the instance ids of the container are
\* 0 .. count-1 in order, and a removal takes the entry at the removed index
\* out of every value list of the container.
C24_AddRemoveKeepDense ==
    [][(/\ last'.op \in {"add_container_instance",
                         "remove_container_instance"}
        /\ last'.result = "True") =>
           LET c == last'.container_path
           IN  /\ \A k \in 1..Len(instances'[c]) : instances'[c][k].id = k - 1
               /\ last'.op = "remove_container_instance" =>
                      \A v \in ContainerVariables[c] :
                          Len(variables'[c][v]) = Len(variables[c][v]) - 1]_vars

\* C21: a normalized tree keeps every node of the tree it was made from, with
\* the types folder, leaf, module and package turned into container, variable
\* into parameter, root and container kept as they are; every node of it has
\* the type root, container or parameter.
C21_NormalizedTypes ==
    tree_structure.done =>
        /\ Len(tree_structure.normalized) = Len(tree_structure.node)
        /\ \A k \in 1..Len(tree_structure.node) :
             LET given == tree_structure.node[k].type
                 type == tree_structure.normalized[k].type
             IN  /\ given \in {"folder", "leaf", "module", "package"}
                        => type = "container"
                 /\ given = "variable" => type = "parameter"
                 /\ given \in {"root", "container"} => type = given
                 /\ type \in {"root", "container", "parameter"}

\* A normalized tree that was given a variable node below a node of a type
\* outside the table.
C21_Witness ==
    /\ tree_structure.done
    /\ Len(tree_structure.node) = 2
    /\ tree_structure.node[1].type = "element"
    /\ tree_structure.node[2].type = "variable"
    /\ tree_structure.normalized[2].type = "parameter"

\* C22: a command that printed a failure ended with a non-zero exit status:
\* the exit status is 0 only when the printed result is a success.
C22_FailureExitsNonZero ==
    process.ran /\ process.returncode = 0 => process.success

\* C30: a create_container_instance call that returns an id leaves
\* get_instance_count of its path one greater than before the call, and when
\* the call before it was a successful create_container_instance on the same
\* path, the two returned ids differ.
C30_CreateIsDurable ==
    [][\A container_path \in LookupPaths :
          (/\ last'.op = "create_container_instance"
           /\ last'.container_path = container_path
           /\ last'.result = "int"
           /\ modification_count' = modification_count + 1)
          => /\ get_instance_count(container_path)'
                    = get_instance_count(container_path) + 1
             /\ (/\ last.op = "create_container_instance"
                 /\ last.container_path = container_path
                 /\ last.result = "int")
                => last'.ret # last.ret]_vars

\* C25: every registered container that is not a root container is held, as
\* that same object and under its own name, by the child map of a registered
\* parent, and every entry of a registered container's child map is a
\* registered ConfigContainer.
C25_NoOrphansNoDangling ==
    /\ \A key \in DOMAIN all_containers \ root_containers :
          LET container == all_containers[key]
          IN  /\ container.parent \in DOMAIN all_containers
              /\ container.name \in
                     DOMAIN all_containers[container.parent].children
              /\ all_containers[container.parent].children[container.name]
                     = [kind |-> "ConfigContainer", key |-> key]
    /\ \A key \in DOMAIN all_containers :
          \A m \in DOMAIN all_containers[key].children :
             LET entry == all_containers[key].children[m]
             IN  /\ entry.kind = "ConfigContainer"
                 /\ entry.key \in DOMAIN all_containers

\* Every variable name of the shape or of a data model.
AllVariableNames ==
    UNION {ShapeVariables[n] : n \in ShapeNames} \cup XdmNames("var")

\* C27: after a processor was made from an existing file, whatever the flat
\* maps hold, the registered containers are exactly those of the canonical
\* shape, each with the parent and the children the shape gives it, and a
\* variable is attached to a container exactly when the shape lists it for
\* that container and the flat variable map holds it.
C27_ShapeDecidesContainers ==
    (last.op = "__init__" /\ document.exists) =>
        /\ DOMAIN all_containers = {<<n>> : n \in ShapeNames}
        /\ root_containers =
               {<<n>> : n \in {m \in ShapeNames : ShapeParent[m] = ""}}
        /\ \A n \in ShapeNames :
              LET container == all_containers[<<n>>]
                  child_names == {m \in ShapeNames : ShapeParent[m] = n}
              IN  /\ container.name = n
                  /\ container.parent = IF ShapeParent[n] = "" THEN <<>>
                                        ELSE <<ShapeParent[n]>>
                  /\ DOMAIN container.children = child_names
                  /\ \A m \in child_names :
                        container.children[m]
                            = [kind |-> "ConfigContainer", key |-> <<m>>]
                  /\ \A v \in AllVariableNames :
                        v \in container.variables
                            <=> (/\ v \in ShapeVariables[n]
                                 /\ v \in XdmVariables(document))
        /\ \A c \in Containers :
              DOMAIN variables[c] = all_containers[<<c>>].variables

\* A processor made from a data model that holds a container and a variable
\* outside the shape and lacks a variable the shape lists: neither of the
\* former is attached, a listed variable that the model holds is.
C27_Witness ==
    /\ last.op = "__init__"
    /\ <<"Custom">> \in containers
    /\ <<"Custom">> \notin DOMAIN all_containers
    /\ "Speed" \in XdmVariables(document)
    /\ "LinTimeoutDuration" \notin XdmVariables(document)
    /\ all_containers[<<"LinGeneral">>].variables = {"LinIndex"}
    /\ all_containers[<<"LinChannel">>].parent = <<"LinGlobalConfig">>

====
